---- MODULE Spec2Model ----
(***************************************************************************)
(* Search audit: the orchestrator's run over a list of queries             *)
(* (packages/core/src/orchestrator.ts), the LLM judge's evaluate()         *)
(* (judge llm client), and the search-box resolver                         *)
(* (packages/extractors/src/searchBox.ts).                                 *)
(*                                                                         *)
(* Strings the code builds, splits or searches are sequences of one-       *)
(* character strings, so that concatenation, includes() and split() are    *)
(* computed as the code computes them.                                     *)
(***************************************************************************)
EXTENDS Integers, Sequences, FiniteSets, TLC

\* ------------------------------------------------------------------ bounds

\* Number of queries handed to runAudit.
MaxQueries == 2

\* How many queries in a row the search-box resolver is followed for.
MaxResolutions == 2

\* ----------------------------------------------------------------- strings

\* null / undefined / None where the value is otherwise a name or a tag.
Null == "null"

\* An optional value: None, or Some(x).
None == <<>>
Some(x) == <<x>>

Min(a, b) == IF a < b THEN a ELSE b

\* String.prototype.includes: needle occurs in hay as a contiguous run.
Includes(hay, needle) ==
    \E i \in 1..(Len(hay) - Len(needle) + 1) :
        \A k \in 1..Len(needle) : hay[i + k - 1] = needle[k]

UpperCaseLetters == <<"A","B","C","D","E","F","G","H","I","J","K","L","M","N","O","P","Q","R","S","T","U","V","W","X","Y","Z">>
LowerCaseLetters == <<"a","b","c","d","e","f","g","h","i","j","k","l","m","n","o","p","q","r","s","t","u","v","w","x","y","z">>

toLowerCaseChar(c) ==
    IF \E i \in 1..26 : UpperCaseLetters[i] = c
    THEN LowerCaseLetters[CHOOSE i \in 1..26 : UpperCaseLetters[i] = c]
    ELSE c

\* String.prototype.toLowerCase
toLowerCase(s) == [i \in 1..Len(s) |-> toLowerCaseChar(s[i])]

\* String.prototype.split(" "): the pieces between single spaces, empty
\* pieces included ("".split(" ") is [""]).
RECURSIVE SplitFrom(_, _, _)
SplitFrom(s, i, cur) ==
    IF i > Len(s) THEN <<cur>>
    ELSE IF s[i] = " " THEN <<cur>> \o SplitFrom(s, i + 1, <<>>)
    ELSE SplitFrom(s, i + 1, Append(cur, s[i]))

split(s) == SplitFrom(s, 1, <<>>)

IsNonEmpty(t) == t # <<>>

\* Array.prototype.filter(Boolean) on an array of strings
filterBoolean(arr) == SelectSeq(arr, IsNonEmpty)

\* Array.prototype.slice(0, n)
sliceFirst(arr, n) == SubSeq(arr, 1, Min(n, Len(arr)))

\* Array.prototype.join(sep)
RECURSIVE join(_, _)
join(arr, sep) ==
    IF Len(arr) = 0 THEN <<>>
    ELSE IF Len(arr) = 1 THEN arr[1]
    ELSE arr[1] \o sep \o join(Tail(arr), sep)

\* ------------------------------------------------------------ the live DOM

\* DOMElement (packages/mcp/src/types.ts): tagName and the attribute bag.
\* inSearchRegion says that an ancestor carries role="search"; it is what
\* the browser knows and the descriptor does not carry.
Elements == <<
    \* 1: <input type="search" id="q" class="search-field hidden">
    [tagName |-> <<"I","N","P","U","T">>, inSearchRegion |-> FALSE,
     attributes |-> [type |-> <<"s","e","a","r","c","h">>, id |-> <<"q">>,
                     class |-> <<"s","e","a","r","c","h","-","f","i","e","l","d"," ","h","i","d","d","e","n">>]],
    \* 2: <input type="search" name="q" class="search-field">
    [tagName |-> <<"I","N","P","U","T">>, inSearchRegion |-> FALSE,
     attributes |-> [type |-> <<"s","e","a","r","c","h">>, name |-> <<"q">>,
                     class |-> <<"s","e","a","r","c","h","-","f","i","e","l","d">>]],
    \* 3: <input type="text" placeholder="Search products" class="nav-input big wide">
    [tagName |-> <<"I","N","P","U","T">>, inSearchRegion |-> FALSE,
     attributes |-> [type |-> <<"t","e","x","t">>, placeholder |-> <<"S","e","a","r","c","h"," ","p","r","o","d","u","c","t","s">>,
                     class |-> <<"n","a","v","-","i","n","p","u","t"," ","b","i","g"," ","w","i","d","e">>]],
    \* 4: <input type="text" aria-label="Search" style="color: red; display: none">
    [tagName |-> <<"I","N","P","U","T">>, inSearchRegion |-> FALSE,
     attributes |-> [type |-> <<"t","e","x","t">>, ariaLabel |-> <<"S","e","a","r","c","h">>,
                     style |-> <<"c","o","l","o","r",":"," ","r","e","d",";"," ","d","i","s","p","l","a","y",":"," ","n","o","n","e">>]],
    \* 5: <input type="search" id="SiteSearch">
    [tagName |-> <<"I","N","P","U","T">>, inSearchRegion |-> FALSE,
     attributes |-> [type |-> <<"s","e","a","r","c","h">>, id |-> <<"S","i","t","e","S","e","a","r","c","h">>]],
    \* 6: <form role="search"><input></form>
    [tagName |-> <<"I","N","P","U","T">>, inSearchRegion |-> TRUE,
     attributes |-> << >>]
    >>

ElementIds == 1..Len(Elements)

\* element.attributes.x, with undefined read as the empty string (the code
\* tests attributes for truthiness or falls back to "").
Attr(el, a) == IF a \in DOMAIN el.attributes THEN el.attributes[a] ELSE <<>>

\* What the browser's selector engine makes of the selector strings in use.
\* kind "id": #val; "class": .val; "attrEq": tag[attr="val"];
\* "attrHasI": tag[attr*="val" i]; "inRegion": [role="search"] tag.
SelectorMeaning == <<
    [text |-> <<"i","n","p","u","t","[","t","y","p","e","=","\"","s","e","a","r","c","h","\"","]">>, kind |-> "attrEq", tag |-> <<"i","n","p","u","t">>, attr |-> "type", val |-> <<"s","e","a","r","c","h">>],
    [text |-> <<"i","n","p","u","t","[","r","o","l","e","=","\"","s","e","a","r","c","h","\"","]">>, kind |-> "attrEq", tag |-> <<"i","n","p","u","t">>, attr |-> "role", val |-> <<"s","e","a","r","c","h">>],
    [text |-> <<"i","n","p","u","t","[","a","r","i","a","-","l","a","b","e","l","*","=","\"","s","e","a","r","c","h","\""," ","i","]">>, kind |-> "attrHasI", tag |-> <<"i","n","p","u","t">>, attr |-> "ariaLabel", val |-> <<"s","e","a","r","c","h">>],
    [text |-> <<"i","n","p","u","t","[","p","l","a","c","e","h","o","l","d","e","r","*","=","\"","s","e","a","r","c","h","\""," ","i","]">>, kind |-> "attrHasI", tag |-> <<"i","n","p","u","t">>, attr |-> "placeholder", val |-> <<"s","e","a","r","c","h">>],
    [text |-> <<"i","n","p","u","t","[","n","a","m","e","*","=","\"","s","e","a","r","c","h","\""," ","i","]">>, kind |-> "attrHasI", tag |-> <<"i","n","p","u","t">>, attr |-> "name", val |-> <<"s","e","a","r","c","h">>],
    [text |-> <<"i","n","p","u","t","[","i","d","*","=","\"","s","e","a","r","c","h","\""," ","i","]">>, kind |-> "attrHasI", tag |-> <<"i","n","p","u","t">>, attr |-> "id", val |-> <<"s","e","a","r","c","h">>],
    [text |-> <<"[","r","o","l","e","=","\"","s","e","a","r","c","h","\"","]"," ","i","n","p","u","t">>, kind |-> "inRegion", tag |-> <<"i","n","p","u","t">>, attr |-> "role", val |-> <<"s","e","a","r","c","h">>],
    [text |-> <<"#","q">>, kind |-> "id", tag |-> <<>>, attr |-> "id", val |-> <<"q">>],
    [text |-> <<"#","m","i","s","s","i","n","g">>, kind |-> "id", tag |-> <<>>, attr |-> "id", val |-> <<"m","i","s","s","i","n","g">>],
    [text |-> <<".","s","e","a","r","c","h","-","f","i","e","l","d">>, kind |-> "class", tag |-> <<>>, attr |-> "class", val |-> <<"s","e","a","r","c","h","-","f","i","e","l","d">>],
    [text |-> <<"i","n","p","u","t","[","n","a","m","e","=","\"","q","\"","]">>, kind |-> "attrEq", tag |-> <<"i","n","p","u","t">>, attr |-> "name", val |-> <<"q">>]
    >>

SeqToSet(s) == {s[i] : i \in 1..Len(s)}

MatchesMeaning(m, el) ==
    CASE m.kind = "id" -> Attr(el, "id") = m.val
      [] m.kind = "class" -> m.val \in SeqToSet(filterBoolean(split(Attr(el, "class"))))
      [] m.kind = "attrEq" -> toLowerCase(el.tagName) = m.tag /\ Attr(el, m.attr) = m.val
      [] m.kind = "attrHasI" ->
            /\ toLowerCase(el.tagName) = m.tag
            /\ m.attr \in DOMAIN el.attributes
            /\ Includes(toLowerCase(Attr(el, m.attr)), m.val)
      [] m.kind = "inRegion" -> toLowerCase(el.tagName) = m.tag /\ el.inSearchRegion

\* Whether the selector string matches the element; a string the engine
\* does not know matches nothing.
Matches(selector, el) ==
    \E i \in 1..Len(SelectorMeaning) :
        SelectorMeaning[i].text = selector /\ MatchesMeaning(SelectorMeaning[i], el)

\* The ids of a set of elements in document order.
RECURSIVE InDomOrder(_, _)
InDomOrder(page, from) ==
    IF from > Len(Elements) THEN <<>>
    ELSE (IF from \in page THEN <<from>> ELSE <<>>) \o InDomOrder(page, from + 1)

IsMatch(selector, id) == Matches(selector, Elements[id])

\* MCPBrowserClient.queryAll on a page (the set of elements present): the
\* matching elements in document order.
queryAll(page, selector) ==
    LET hit(id) == IsMatch(selector, id)
    IN SelectSeq(InDomOrder(page, 1), hit)

\* ------------------------------------------------------ search-box resolver

VARIABLES
    sbSelectors,     \* config.inputSelectors of the call
    sbUseVision,     \* whether the vision fallback is enabled for the site
    sbPage,          \* the elements present on the live page
    sbPhase,         \* "configured", "fallback", "vision", "found", "notfound"
    sbIdx,           \* position of the loop in the list being tried
    sbQueried,       \* the selectors handed to queryAll so far, in order
    sbElement,       \* the element the resolver settled on (0: none)
    sbResult,        \* the value findSearchBox returns: None or Some(selector)
    sbSubmit,        \* config.submitStrategy / config.submitSelector
    visionCalls,     \* how often the vision fallback was entered
    visionAnswer,    \* what the last vision detection came back with
    sbQuery,         \* which query of the run the resolver is working for
    sbSiteSubmit     \* the submit strategy and selector as the site config was loaded

sbVars == <<sbSelectors, sbUseVision, sbPage, sbPhase, sbIdx, sbQueried,
            sbElement, sbResult, sbSubmit, visionCalls, visionAnswer,
            sbQuery, sbSiteSubmit>>

isLikelyVisible(element) ==
    LET style == Attr(element, "style")
        className == Attr(element, "class")
    IN ~ \/ Includes(style, <<"d","i","s","p","l","a","y",":"," ","n","o","n","e">>)
         \/ Includes(style, <<"d","i","s","p","l","a","y",":","n","o","n","e">>)
         \/ Includes(style, <<"v","i","s","i","b","i","l","i","t","y",":"," ","h","i","d","d","e","n">>)
         \/ Includes(style, <<"v","i","s","i","b","i","l","i","t","y",":","h","i","d","d","e","n">>)
         \/ Includes(className, <<"h","i","d","d","e","n">>)
         \/ Includes(className, <<"i","n","v","i","s","i","b","l","e">>)

buildSelector(element) ==
    IF Attr(element, "id") # <<>>
    THEN <<"#">> \o Attr(element, "id")
    ELSE IF Attr(element, "name") # <<>>
    THEN <<"i","n","p","u","t","[","n","a","m","e","=","\"">> \o Attr(element, "name") \o <<"\"","]">>
    ELSE LET classes == sliceFirst(filterBoolean(split(Attr(element, "class"))), 2)
         IN IF Attr(element, "class") # <<>> /\ Len(classes) > 0
            THEN <<"i","n","p","u","t",".">> \o join(classes, <<".">>)
            ELSE toLowerCase(element.tagName)

fallbackSelectors == <<
    <<"i","n","p","u","t","[","t","y","p","e","=","\"","s","e","a","r","c","h","\"","]">>,
    <<"i","n","p","u","t","[","r","o","l","e","=","\"","s","e","a","r","c","h","\"","]">>,
    <<"i","n","p","u","t","[","a","r","i","a","-","l","a","b","e","l","*","=","\"","s","e","a","r","c","h","\""," ","i","]">>,
    <<"i","n","p","u","t","[","p","l","a","c","e","h","o","l","d","e","r","*","=","\"","s","e","a","r","c","h","\""," ","i","]">>,
    <<"i","n","p","u","t","[","n","a","m","e","*","=","\"","s","e","a","r","c","h","\""," ","i","]">>,
    <<"i","n","p","u","t","[","i","d","*","=","\"","s","e","a","r","c","h","\""," ","i","]">>,
    <<"[","r","o","l","e","=","\"","s","e","a","r","c","h","\"","]"," ","i","n","p","u","t">>
    >>

\* The inner loop over a match set: the position of the first element that
\* isLikelyVisible accepts, 0 when the loop falls through.
\* Variants of the scan: the last visible element instead of the first, and
\* the first element whether visible or not.
RECURSIVE FirstVisibleFromLast(_, _)
FirstVisibleFromLast(elements, i) ==
    IF i < 1 THEN 0
    ELSE IF isLikelyVisible(Elements[elements[i]]) THEN i
    ELSE FirstVisibleFromLast(elements, i - 1)

FirstVisibleLast(elements) == FirstVisibleFromLast(elements, Len(elements))

FirstMatchAny(elements) == IF Len(elements) > 0 THEN 1 ELSE 0

RECURSIVE FirstVisibleFrom(_, _)
FirstVisibleFrom(elements, i) ==
    IF i > Len(elements) THEN 0
    ELSE IF isLikelyVisible(Elements[elements[i]]) THEN i
    ELSE FirstVisibleFrom(elements, i + 1)

FirstVisible(elements) == FirstVisibleFrom(elements, 1)

\* The body of either loop for one selector: queryAll, then the scan of the
\* match set. The id of the element settled on, 0 when there is none.
ScanMatchSet(page, selector) ==
    LET elements == queryAll(page, selector)
        v == FirstVisible(elements)
    IN IF v # 0 THEN elements[v] ELSE 0

\* The site configurations tried: inputSelectors lists.
InputSelectorLists == {
    <<>>,
    <<<<"#","q">>>>,
    <<<<"#","m","i","s","s","i","n","g">>, <<".","s","e","a","r","c","h","-","f","i","e","l","d">>>>,
    <<<<"i","n","p","u","t","[","n","a","m","e","=","\"","q","\"","]">>, <<"i","n","p","u","t","[","t","y","p","e","=","\"","s","e","a","r","c","h","\"","]">>>>
    }

SubmitConfigs == {
    [submitStrategy |-> "enter", submitSelector |-> None],
    [submitStrategy |-> "clickSelector", submitSelector |-> Some(<<"#","g","o">>)]
    }

\* The first for-loop of findSearchBox is skipped when the list is empty.
StartPhase(selectors) == IF Len(selectors) = 0 THEN "fallback" ELSE "configured"

\* Variant: the fallback loop ends after its first selector.
FallbackGivesUpEarly(i) == i >= 1

\* Whether the pass at position i was the last of the fallback loop.
FallbackExhausted(i) == i >= Len(fallbackSelectors)

\* `return null` at the end of the TypeScript findSearchBox. The resolver of
\* the design (and the Python SearchBoxFinder quoted in CODE_REFERENCES.md)
\* goes on to the vision fallback when it is enabled; with it disabled this
\* is the TypeScript function.
AfterCssExhausted(useVision) == IF useVision THEN "vision" ELSE "notfound"

SBInit ==
    /\ sbSelectors \in InputSelectorLists
    /\ sbUseVision \in BOOLEAN
    /\ sbPage \in SUBSET ElementIds
    /\ sbPhase = StartPhase(sbSelectors)
    /\ sbIdx = 1
    /\ sbQueried = <<>>
    /\ sbElement = 0
    /\ sbResult = None
    /\ sbSubmit \in SubmitConfigs
    /\ visionCalls = 0
    /\ visionAnswer = None
    /\ sbQuery = 1
    /\ sbSiteSubmit = sbSubmit

\* One pass of the first loop: queryAll on a configured selector, then the
\* scan of its match set.
TryConfigured ==
    /\ sbPhase = "configured"
    /\ LET selector == sbSelectors[sbIdx]
           el == ScanMatchSet(sbPage, selector)
       IN /\ sbQueried' = Append(sbQueried, selector)
          /\ IF el # 0
             THEN /\ sbPhase' = "found"
                  /\ sbElement' = el
                  /\ sbResult' = Some(buildSelector(Elements[el]))
                  /\ sbIdx' = sbIdx
             ELSE /\ sbElement' = sbElement
                  /\ sbResult' = sbResult
                  /\ IF sbIdx < Len(sbSelectors)
                     THEN sbPhase' = sbPhase /\ sbIdx' = sbIdx + 1
                     ELSE sbPhase' = "fallback" /\ sbIdx' = 1
    /\ UNCHANGED <<sbSelectors, sbUseVision, sbPage, sbSubmit, visionCalls,
                   visionAnswer, sbQuery, sbSiteSubmit>>

\* One pass of the second loop, over fallbackSelectors.
TryFallback ==
    /\ sbPhase = "fallback"
    /\ LET selector == fallbackSelectors[sbIdx]
           el == ScanMatchSet(sbPage, selector)
       IN /\ sbQueried' = Append(sbQueried, selector)
          /\ IF el # 0
             THEN /\ sbPhase' = "found"
                  /\ sbElement' = el
                  /\ sbResult' = Some(buildSelector(Elements[el]))
                  /\ sbIdx' = sbIdx
             ELSE /\ sbElement' = sbElement
                  /\ sbResult' = sbResult
                  /\ IF FallbackExhausted(sbIdx)
                     THEN sbPhase' = AfterCssExhausted(sbUseVision) /\ sbIdx' = sbIdx
                     ELSE sbPhase' = sbPhase /\ sbIdx' = sbIdx + 1
    /\ UNCHANGED <<sbSelectors, sbUseVision, sbPage, sbSubmit, visionCalls,
                   visionAnswer, sbQuery, sbSiteSubmit>>

\* findSearchBox run to its return: both loops in turn.
RECURSIVE ScanSelectors(_, _, _)
ScanSelectors(page, selectors, i) ==
    IF i > Len(selectors) THEN None
    ELSE LET el == ScanMatchSet(page, selectors[i])
         IN IF el # 0 THEN Some(buildSelector(Elements[el]))
            ELSE ScanSelectors(page, selectors, i + 1)

findSearchBox(page, inputSelectors) ==
    LET configured == ScanSelectors(page, inputSelectors, 1)
    IN IF configured # None THEN configured
       ELSE ScanSelectors(page, fallbackSelectors, 1)

\* What the vision model may answer: confidence (Null: absent), the ordered
\* selector suggestions, and a suggested submit strategy and selector.
VisionSelectorLists == {
    <<>>,
    <<<<"#","m","i","s","s","i","n","g">>>>,
    <<<<"#","m","i","s","s","i","n","g">>, <<"#","q">>>>,
    <<<<".","s","e","a","r","c","h","-","f","i","e","l","d">>, <<"#","q">>>>
    }

VisionSubmitSuggestions == {
    [submit_strategy |-> Null, submit_selector |-> None],
    [submit_strategy |-> "clickSelector", submit_selector |-> Some(<<"#","b","t","n">>)]
    }

VisionResponses ==
    {[confidence |-> c, selectors |-> s, submit |-> u] :
        c \in {"high", "medium", "low", Null},
        s \in VisionSelectorLists,
        u \in VisionSubmitSuggestions}

\* Where a detection attempt may break: the screenshot, the HTML capture,
\* the chat call, or the parse of its reply.
VisionFailures == {"none", "init", "screenshot", "html", "llm", "parse"}

\* The handlers around a detection, innermost first: _analyze_page wraps the
\* chat call and the parse, find_search_box the captures and _analyze_page,
\* _intelligent_find the construction of the finder and find_search_box.
\* Each is `except Exception`, which takes whatever was raised inside it.
AnalyzePageCatches(failure) == failure \in {"llm", "parse"}

FindSearchBoxCatches(failure) == failure \in {"screenshot", "html", "llm", "parse"}

\* Variant: _intelligent_find without its try/except.
IntelligentFindCatchesNothing(failure) == FALSE

IntelligentFindCatches(failure) == failure # "none"

\* An exception leaves the vision fallback when no handler takes it.
Escapes(failure) ==
    /\ failure # "none"
    /\ ~AnalyzePageCatches(failure)
    /\ ~FindSearchBoxCatches(failure)
    /\ ~IntelligentFindCatches(failure)

\* Variant: a detection that does not look at the confidence.
DetectAnyConfidence(failure, response) ==
    IF failure # "none" THEN None ELSE Some(response)

\* IntelligentSearchBoxFinder.find_search_box: the response when nothing
\* raised and its confidence is high or medium, else None.
DetectSearchBox(failure, response) ==
    IF failure # "none" THEN None
    ELSE IF response.confidence \in {"high", "medium"} THEN Some(response)
    ELSE None

\* validate_selector: the element exists on the live page.
validate_selector(page, selector) == Len(queryAll(page, selector)) > 0

RECURSIVE FirstValidFrom(_, _, _)
FirstValidFrom(page, selectors, i) ==
    IF i > Len(selectors) THEN 0
    ELSE IF validate_selector(page, selectors[i]) THEN i
    ELSE FirstValidFrom(page, selectors, i + 1)

\* The vision fallback as a whole (_intelligent_find): one detection, then
\* the first suggested selector that exists on the page; the suggested
\* submit strategy and selector replace the configured ones.
VisionFallback ==
    /\ sbPhase = "vision"
    /\ \E failure \in VisionFailures, response \in VisionResponses :
         LET detected == DetectSearchBox(failure, response)
             result == detected[1]
             k == IF detected = None THEN 0
                  ELSE FirstValidFrom(sbPage, result.selectors, 1)
         IN /\ visionCalls' = visionCalls + 1
            /\ visionAnswer' = Some([failure |-> failure, response |-> response])
            /\ IF Escapes(failure)
               THEN /\ sbPhase' = "raised"
                    /\ UNCHANGED <<sbResult, sbSubmit>>
               ELSE IF k = 0
               THEN /\ sbPhase' = "notfound"
                    /\ UNCHANGED <<sbResult, sbSubmit>>
               ELSE /\ sbPhase' = "found"
                    /\ sbResult' = Some(result.selectors[k])
                    /\ sbSubmit' =
                         [submitStrategy |->
                              IF result.submit.submit_strategy # Null
                              THEN result.submit.submit_strategy
                              ELSE sbSubmit.submitStrategy,
                          submitSelector |->
                              IF result.submit.submit_selector # None
                              THEN result.submit.submit_selector
                              ELSE sbSubmit.submitSelector]
    /\ UNCHANGED <<sbSelectors, sbUseVision, sbPage, sbIdx, sbQueried, sbElement,
                   sbQuery, sbSiteSubmit>>

\* The orchestrator builds a new finder for the next query over the same
\* config.site.search object, on the search page of the same site.
NextResolution ==
    /\ sbPhase \in {"found", "notfound"}
    /\ sbQuery < MaxResolutions
    /\ sbQuery' = sbQuery + 1
    /\ sbPhase' = StartPhase(sbSelectors)
    /\ sbIdx' = 1
    /\ sbQueried' = <<>>
    /\ sbElement' = 0
    /\ sbResult' = None
    /\ visionCalls' = 0
    /\ visionAnswer' = None
    /\ UNCHANGED <<sbSelectors, sbUseVision, sbPage, sbSubmit, sbSiteSubmit>>

SBNext == TryConfigured \/ TryFallback \/ VisionFallback \/ NextResolution
\* -------------------------------------------------------- results extractor

\* String.prototype.trim, for the blank the texts here can hold.
RECURSIVE TrimStart(_)
TrimStart(s) == IF Len(s) > 0 /\ s[1] = " " THEN TrimStart(Tail(s)) ELSE s

RECURSIVE TrimEnd(_)
TrimEnd(s) ==
    IF Len(s) > 0 /\ s[Len(s)] = " " THEN TrimEnd(SubSeq(s, 1, Len(s) - 1)) ELSE s

trim(s) == TrimEnd(TrimStart(s))

\* The length innerText is cut to when it stands in for a title.
TitleLimit == 200

\* String.prototype.substring(0, n)
substring0(s, n) == SubSeq(s, 1, Min(n, Len(s)))

\* The result cards a results page may hold, in document order. nodes lists
\* the element itself and then its descendants in the order of outerHTML,
\* each with its tag, its class and href attributes, the text that follows
\* its opening tag (up to the next "<") and whether its closing tag follows
\* that text directly.
\*   1  <article class="product-card"><h2>Shoe A</h2><span class="price">$ 12.99</span>
\*        <a href="/p/a?utm_source=x">view</a></article>
\*   2  <article><img></article>
\*   3  <article class="product-card"><span class="title"> Shoe C </span></article>
\*   4  <div class="product-card"><h2> </h2><a href="/p/d"><img src="/d.png"></a></div>
\*   5  <a href="/p/e">Shoe E</a>
Cards == <<
    [tagName |-> <<"A","R","T","I","C","L","E">>, attributes |-> [class |-> <<"p","r","o","d","u","c","t","-","c","a","r","d">>],
     innerText |-> <<"S","h","o","e"," ","A"," ","$"," ","1","2",".","9","9"," ","v","i","e","w">>,
     nodes |-> <<[tag |-> <<"a","r","t","i","c","l","e">>, class |-> <<"p","r","o","d","u","c","t","-","c","a","r","d">>, href |-> <<>>, src |-> <<>>, text |-> <<>>, closed |-> FALSE],
                 [tag |-> <<"h","2">>, class |-> <<>>, href |-> <<>>, src |-> <<>>, text |-> <<"S","h","o","e"," ","A">>, closed |-> TRUE],
                 [tag |-> <<"s","p","a","n">>, class |-> <<"p","r","i","c","e">>, href |-> <<>>, src |-> <<>>, text |-> <<"$"," ","1","2",".","9","9">>, closed |-> TRUE],
                 [tag |-> <<"a">>, class |-> <<>>, href |-> <<"/","p","/","a","?","u","t","m","_","s","o","u","r","c","e","=","x">>, src |-> <<>>, text |-> <<"v","i","e","w">>, closed |-> TRUE]>>],
    [tagName |-> <<"A","R","T","I","C","L","E">>, attributes |-> << >>,
     innerText |-> <<" "," ">>,
     nodes |-> <<[tag |-> <<"a","r","t","i","c","l","e">>, class |-> <<>>, href |-> <<>>, src |-> <<>>, text |-> <<>>, closed |-> FALSE],
                 [tag |-> <<"i","m","g">>, class |-> <<>>, href |-> <<>>, src |-> <<>>, text |-> <<>>, closed |-> FALSE]>>],
    [tagName |-> <<"A","R","T","I","C","L","E">>, attributes |-> [class |-> <<"p","r","o","d","u","c","t","-","c","a","r","d">>],
     innerText |-> <<"S","h","o","e"," ","C">>,
     nodes |-> <<[tag |-> <<"a","r","t","i","c","l","e">>, class |-> <<"p","r","o","d","u","c","t","-","c","a","r","d">>, href |-> <<>>, src |-> <<>>, text |-> <<>>, closed |-> FALSE],
                 [tag |-> <<"s","p","a","n">>, class |-> <<"t","i","t","l","e">>, href |-> <<>>, src |-> <<>>, text |-> <<" ","S","h","o","e"," ","C"," ">>, closed |-> TRUE]>>],
    [tagName |-> <<"D","I","V">>, attributes |-> [class |-> <<"p","r","o","d","u","c","t","-","c","a","r","d">>],
     innerText |-> <<" ">>,
     nodes |-> <<[tag |-> <<"d","i","v">>, class |-> <<"p","r","o","d","u","c","t","-","c","a","r","d">>, href |-> <<>>, src |-> <<>>, text |-> <<>>, closed |-> FALSE],
                 [tag |-> <<"h","2">>, class |-> <<>>, href |-> <<>>, src |-> <<>>, text |-> <<" ">>, closed |-> TRUE],
                 [tag |-> <<"a">>, class |-> <<>>, href |-> <<"/","p","/","d">>, src |-> <<>>, text |-> <<>>, closed |-> FALSE],
                 [tag |-> <<"i","m","g">>, class |-> <<>>, href |-> <<>>, src |-> <<"/","d",".","p","n","g">>, text |-> <<>>, closed |-> FALSE]>>],
    [tagName |-> <<"A">>, attributes |-> [href |-> <<"/","p","/","e">>],
     innerText |-> <<"S","h","o","e"," ","E">>,
     nodes |-> <<[tag |-> <<"a">>, class |-> <<>>, href |-> <<"/","p","/","e">>, src |-> <<>>, text |-> <<"S","h","o","e"," ","E">>, closed |-> TRUE]>>]
    >>

CardIds == 1..Len(Cards)

\* What the browser's selector engine makes of the container selectors in
\* use: a tag name, a class, or a[href*="/"].
ItemSelectorMeaning == <<
    [text |-> <<"a","r","t","i","c","l","e">>, kind |-> "tag", val |-> <<"a","r","t","i","c","l","e">>],
    [text |-> <<".","p","r","o","d","u","c","t","-","c","a","r","d">>, kind |-> "class", val |-> <<"p","r","o","d","u","c","t","-","c","a","r","d">>],
    [text |-> <<"a","[","h","r","e","f","*","=","\"","/","\"","]">>, kind |-> "hrefHas", val |-> <<"/">>],
    [text |-> <<".","s","e","a","r","c","h","-","r","e","s","u","l","t">>, kind |-> "class", val |-> <<"s","e","a","r","c","h","-","r","e","s","u","l","t">>]
    >>

CardMatchesMeaning(m, el) ==
    CASE m.kind = "tag" -> toLowerCase(el.tagName) = m.val
      [] m.kind = "class" -> m.val \in SeqToSet(filterBoolean(split(Attr(el, "class"))))
      [] m.kind = "hrefHas" ->
            /\ toLowerCase(el.tagName) = <<"a">>
            /\ Includes(Attr(el, "href"), m.val)

CardMatches(selector, el) ==
    \E k \in 1..Len(ItemSelectorMeaning) :
        ItemSelectorMeaning[k].text = selector
            /\ CardMatchesMeaning(ItemSelectorMeaning[k], el)

RECURSIVE CardsInDomOrder(_, _)
CardsInDomOrder(page, from) ==
    IF from > Len(Cards) THEN <<>>
    ELSE (IF from \in page THEN <<from>> ELSE <<>>) \o CardsInDomOrder(page, from + 1)

\* client.queryAll(itemSelector) on a results page: the ids of the matching
\* cards in document order.
queryAllCards(page, selector) ==
    LET hit(id) == CardMatches(selector, Cards[id])
    IN SelectSeq(CardsInDomOrder(page, 1), hit)

Digits == {"0", "1", "2", "3", "4", "5", "6", "7", "8", "9"}

\* [a-z0-9] and [a-z0-9_-] under the i flag
AlnumChars == SeqToSet(LowerCaseLetters) \cup SeqToSet(UpperCaseLetters) \cup Digits

ClassNameChars == AlnumChars \cup {"_", "-"}

\* The characters the strings here are written in.
AllChars == ClassNameChars \cup {" ", "/", "?", "&", "=", ".", ":", "$", "#", "[", "]"}

\* The longest run of characters of the set that starts at position i.
RECURSIVE RunFrom(_, _, _)
RunFrom(s, i, chars) ==
    IF i <= Len(s) /\ s[i] \in chars THEN <<s[i]>> \o RunFrom(s, i + 1, chars)
    ELSE <<>>

\* selector.match(/^([a-z0-9]+)/i): the tag the selector starts with.
TagOfSelector(selector) == RunFrom(selector, 1, AlnumChars)

\* selector.match(/\.([a-z0-9_-]+)/i): the first class name in the selector.
RECURSIVE ClassOfSelectorFrom(_, _)
ClassOfSelectorFrom(selector, p) ==
    IF p > Len(selector) THEN <<>>
    ELSE IF selector[p] = "." /\ RunFrom(selector, p + 1, ClassNameChars) # <<>>
    THEN RunFrom(selector, p + 1, ClassNameChars)
    ELSE ClassOfSelectorFrom(selector, p + 1)

ClassOfSelector(selector) == ClassOfSelectorFrom(selector, 1)

\* The first node of the element for which the test holds (0: none).
RECURSIVE FirstNodeFrom(_, _, _)
FirstNodeFrom(element, Test(_), k) ==
    IF k > Len(element.nodes) THEN 0
    ELSE IF Test(element.nodes[k]) THEN k
    ELSE FirstNodeFrom(element, Test, k + 1)

FirstNode(element, Test(_)) == FirstNodeFrom(element, Test, 1)

\* <tag[^>]*>([^<]+)</tag> and class="[^"]*name[^"]*"[^>]*>([^<]+)< on
\* outerHTML: the captured text, None without a match.
MatchTag(element, tag) ==
    LET test(n) == toLowerCase(n.tag) = toLowerCase(tag) /\ n.text # <<>> /\ n.closed
        k == FirstNode(element, test)
    IN IF k = 0 THEN None ELSE Some(element.nodes[k].text)

MatchClass(element, className) ==
    LET test(n) == Includes(toLowerCase(n.class), toLowerCase(className)) /\ n.text # <<>>
        k == FirstNode(element, test)
    IN IF k = 0 THEN None ELSE Some(element.nodes[k].text)

\* The loop of extractTextFromSelectors from position k: per selector the
\* tag pattern, then the class pattern; the first capture, trimmed, is
\* returned as it is (also when trimming leaves nothing). After the loop the
\* element's innerText stands in, trimmed and cut, unless it is blank.
RECURSIVE TextFromSelectorsFrom(_, _, _)
TextFromSelectorsFrom(element, selectors, k) ==
    IF k > Len(selectors)
    THEN IF trim(element.innerText) # <<>>
         THEN Some(substring0(trim(element.innerText), TitleLimit))
         ELSE None
    ELSE LET byTag == IF TagOfSelector(selectors[k]) = <<>> THEN None
                      ELSE MatchTag(element, TagOfSelector(selectors[k]))
             byClass == IF ClassOfSelector(selectors[k]) = <<>> THEN None
                        ELSE MatchClass(element, ClassOfSelector(selectors[k]))
         IN IF byTag # None THEN Some(trim(byTag[1]))
            ELSE IF byClass # None THEN Some(trim(byClass[1]))
            ELSE TextFromSelectorsFrom(element, selectors, k + 1)

\* extractTextFromSelectors: a string, or None for null.
extractTextFromSelectors(element, selectors) ==
    TextFromSelectorsFrom(element, selectors, 1)

\* extractUrl: the element's own attribute, else the first href in outerHTML.
extractUrl(element, urlAttr) ==
    LET hasHref(n) == n.href # <<>>
        k == FirstNode(element, hasHref)
    IN IF Attr(element, urlAttr) # <<>> THEN Some(Attr(element, urlAttr))
       ELSE IF k # 0 THEN Some(element.nodes[k].href)
       ELSE None

\* extractImage: the src of the first img in outerHTML.
extractImage(element) ==
    LET isImg(n) == toLowerCase(n.tag) = <<"i","m","g">> /\ n.src # <<>>
        k == FirstNode(element, isImg)
    IN IF k = 0 THEN None ELSE Some(element.nodes[k].src)

\* The amount (\d+(?:[.,]\d{2})?) read at position p, empty without a digit.
Amount(s, p) ==
    LET whole == RunFrom(s, p, Digits)
        after == p + Len(whole)
    IN IF whole # <<>> /\ after + 2 <= Len(s) /\ s[after] \in {".", ","}
            /\ s[after + 1] \in Digits /\ s[after + 2] \in Digits
       THEN whole \o SubSeq(s, after, after + 2)
       ELSE whole

\* The position after the blanks that start at position p.
SkipBlanks(s, p) == p + Len(RunFrom(s, p, {" "}))

StartsWithAt(s, p, word) ==
    /\ p + Len(word) - 1 <= Len(s)
    /\ \A k \in 1..Len(word) : s[p + k - 1] = word[k]

\* /\$\s*(\d+(?:[.,]\d{2})?)/ : the amount after the leftmost "$" that has one.
RECURSIVE DollarAmountFrom(_, _)
DollarAmountFrom(s, p) ==
    IF p > Len(s) THEN None
    ELSE IF s[p] = "$" /\ Amount(s, SkipBlanks(s, p + 1)) # <<>>
    THEN Some(Amount(s, SkipBlanks(s, p + 1)))
    ELSE DollarAmountFrom(s, p + 1)

DollarAmount(s) == DollarAmountFrom(s, 1)

\* /(\d+(?:[.,]\d{2})?)\s*USD/ : the leftmost amount that "USD" follows,
\* with or without its decimals.
UsdFollows(s, p, amount) == StartsWithAt(s, SkipBlanks(s, p + Len(amount)), <<"U","S","D">>)

RECURSIVE UsdAmountFrom(_, _)
UsdAmountFrom(s, p) ==
    IF p > Len(s) THEN None
    ELSE IF s[p] \in Digits /\ UsdFollows(s, p, Amount(s, p)) THEN Some(Amount(s, p))
    ELSE IF s[p] \in Digits /\ UsdFollows(s, p, RunFrom(s, p, Digits))
    THEN Some(RunFrom(s, p, Digits))
    ELSE UsdAmountFrom(s, p + 1)

UsdAmount(s) == UsdAmountFrom(s, 1)

\* outerHTML + innerText as the price patterns read it: the texts of the
\* nodes, kept apart by their tags, then innerText.
RECURSIVE NodeTextsFrom(_, _)
NodeTextsFrom(element, k) ==
    IF k > Len(element.nodes) THEN <<>>
    ELSE element.nodes[k].text \o <<"<">> \o NodeTextsFrom(element, k + 1)

PriceSource(element) == NodeTextsFrom(element, 1) \o element.innerText

\* extractPrice: the three patterns in turn; the last, /price[^>]*>([^<]+)</i,
\* takes the text of the first node whose opening tag holds "price".
extractPrice(element) ==
    LET s == PriceSource(element)
        priced(n) == /\ \/ Includes(toLowerCase(n.class), <<"p","r","i","c","e">>)
                        \/ Includes(toLowerCase(n.tag), <<"p","r","i","c","e">>)
                     /\ n.text # <<>>
        k == FirstNode(element, priced)
    IN IF DollarAmount(s) # None THEN DollarAmount(s)
       ELSE IF UsdAmount(s) # None THEN UsdAmount(s)
       ELSE IF k # 0 THEN Some(element.nodes[k].text)
       ELSE None

\* The first position of the character in the string (0: none).
RECURSIVE IndexFrom(_, _, _)
IndexFrom(s, c, p) ==
    IF p > Len(s) THEN 0 ELSE IF s[p] = c THEN p ELSE IndexFrom(s, c, p + 1)

IndexOf(s, c) == IndexFrom(s, c, 1)

\* The pieces of the string between occurrences of the separator.
RECURSIVE SplitOnFrom(_, _, _, _)
SplitOnFrom(s, sep, p, cur) ==
    IF p > Len(s) THEN <<cur>>
    ELSE IF s[p] = sep THEN <<cur>> \o SplitOnFrom(s, sep, p + 1, <<>>)
    ELSE SplitOnFrom(s, sep, p + 1, Append(cur, s[p]))

SplitOn(s, sep) == SplitOnFrom(s, sep, 1, <<>>)

\* The base normalizeUrl resolves against, and the parameters it deletes.
UrlBase == <<"h","t","t","p","s",":","/","/","e","x","a","m","p","l","e",".","c","o","m">>

trackingParams == <<<<"u","t","m","_","s","o","u","r","c","e">>, <<"u","t","m","_","m","e","d","i","u","m">>, <<"u","t","m","_","c","a","m","p","a","i","g","n">>, <<"r","e","f">>, <<"s","o","u","r","c","e">>>>

SchemeOf(url) ==
    IF StartsWithAt(url, 1, <<"h","t","t","p","s",":","/","/">>) THEN <<"h","t","t","p","s",":","/","/">>
    ELSE IF StartsWithAt(url, 1, <<"h","t","t","p",":","/","/">>) THEN <<"h","t","t","p",":","/","/">>
    ELSE <<>>

\* The host of an absolute URL: what follows the scheme up to "/", "?"
\* or "#".
HostOf(url) == RunFrom(url, Len(SchemeOf(url)) + 1, AllChars \ {"/", "?", "#"})

\* new URL(url, base) throws for an absolute URL without a valid host.
UrlParses(url) ==
    SchemeOf(url) = <<>> \/ (HostOf(url) # <<>> /\ IndexOf(HostOf(url), " ") = 0)

\* The part of the string before the first occurrence of the character (all
\* of it when there is none), and the part from that occurrence on.
Before(s, c) == IF IndexOf(s, c) = 0 THEN s ELSE SubSeq(s, 1, IndexOf(s, c) - 1)

From(s, c) == IF IndexOf(s, c) = 0 THEN <<>> ELSE SubSeq(s, IndexOf(s, c), Len(s))

\* The URL resolved against the base, as new URL serializes it: an absolute
\* URL with its host in lower case and "/" for an empty path, anything else
\* under the base's root.
Resolve(url) ==
    IF SchemeOf(url) # <<>>
    THEN SchemeOf(url) \o toLowerCase(HostOf(url))
         \o (IF Len(SchemeOf(url)) + Len(HostOf(url)) < Len(url)
                /\ url[Len(SchemeOf(url)) + Len(HostOf(url)) + 1] = "/"
             THEN <<>> ELSE <<"/">>)
         \o SubSeq(url, Len(SchemeOf(url)) + Len(HostOf(url)) + 1, Len(url))
    ELSE IF Len(url) > 0 /\ url[1] = "/" THEN UrlBase \o url
    ELSE UrlBase \o <<"/">> \o url

\* The percent-decoding of URLSearchParams: "+" and "%20" are a space.
RECURSIVE DecodeFrom(_, _)
DecodeFrom(s, p) ==
    IF p > Len(s) THEN <<>>
    ELSE IF s[p] = "+" THEN <<" ">> \o DecodeFrom(s, p + 1)
    ELSE IF StartsWithAt(s, p, <<"%","2","0">>) THEN <<" ">> \o DecodeFrom(s, p + 3)
    ELSE <<s[p]>> \o DecodeFrom(s, p + 1)

\* The serialization of URLSearchParams: a space is "+".
Encode(s) == [p \in 1..Len(s) |-> IF s[p] = " " THEN "+" ELSE s[p]]

\* One piece of the query as a name and a value: split at the first "=",
\* the value empty when there is none.
ParsePair(piece) ==
    [name |-> DecodeFrom(Before(piece, "="), 1),
     value |-> IF From(piece, "=") = <<>> THEN <<>>
               ELSE DecodeFrom(Tail(From(piece, "=")), 1)]

\* url.searchParams: the pairs of the non-empty pieces between "&".
RECURSIVE ParsePairs(_)
ParsePairs(pieces) ==
    IF pieces = <<>> THEN <<>>
    ELSE IF Head(pieces) = <<>> THEN ParsePairs(Tail(pieces))
    ELSE <<ParsePair(Head(pieces))>> \o ParsePairs(Tail(pieces))

searchParams(query) == ParsePairs(SplitOn(query, "&"))

\* URLSearchParams.toString
RECURSIVE SerializePairs(_)
SerializePairs(pairs) ==
    IF pairs = <<>> THEN <<>>
    ELSE Encode(Head(pairs).name) \o <<"=">> \o Encode(Head(pairs).value)
         \o (IF Len(pairs) > 1 THEN <<"&">> ELSE <<>>)
         \o SerializePairs(Tail(pairs))

\* Variant: no parameter is deleted.
KeepsAll(pair) == TRUE

\* trackingParams.forEach((param) => urlObj.searchParams.delete(param)):
\* whether a pair outlives the deletions.
IsKept(pair) == pair.name \notin SeqToSet(trackingParams)

\* The query of an absolute URL: what stands between "?" and the fragment.
QueryOf(abs) ==
    IF From(Before(abs, "#"), "?") = <<>> THEN <<>> ELSE Tail(From(Before(abs, "#"), "?"))

\* urlObj.toString() after the deletions: the path, the pairs left (the query
\* is written anew from them, without "?" when none is left), the fragment.
WithParams(abs) ==
    Before(Before(abs, "#"), "?")
    \o (IF SelectSeq(searchParams(QueryOf(abs)), IsKept) = <<>> THEN <<>>
        ELSE <<"?">> \o SerializePairs(SelectSeq(searchParams(QueryOf(abs)), IsKept)))
    \o From(abs, "#")

\* normalizeUrl: the resolved URL with the tracking parameters deleted from
\* its query; a string new URL rejects is returned as it is.
normalizeUrl(url) == IF ~UrlParses(url) THEN url ELSE WithParams(Resolve(url))

\* config.site.results of the audited site.
TitleSelectors == <<<<"h","2">>, <<".","t","i","t","l","e">>>>

SnippetSelectors == <<<<".","d","e","s","c","r","i","p","t","i","o","n">>, <<"p">>>>

UrlAttr == "href"

\* Variant: an item is returned whatever it holds.
IsWorthKeepingAlways(item) == TRUE

\* if (result.title || result.url)
IsWorthKeeping(item) ==
    (item.title # None /\ item.title[1] # <<>>) \/ (item.url # None /\ item.url[1] # <<>>)

\* A field of extractResultItem's result: set only when the value is truthy.
IfTruthy(value) == IF value # None /\ value[1] # <<>> THEN value ELSE None

\* extractResultItem: Some(item) when the item has a title or a URL, else
\* None for null.
extractResultItem(element, rank) ==
    LET item == [rank |-> rank,
                 title |-> IfTruthy(extractTextFromSelectors(element, TitleSelectors)),
                 url |-> IF IfTruthy(extractUrl(element, UrlAttr)) # None
                         THEN Some(normalizeUrl(extractUrl(element, UrlAttr)[1]))
                         ELSE None,
                 snippet |-> IfTruthy(extractTextFromSelectors(element, SnippetSelectors)),
                 price |-> IfTruthy(extractPrice(element)),
                 image |-> IfTruthy(extractImage(element))]
    IN SelectSeq(<<item>>, IsWorthKeeping)

VARIABLES
    erSelectors,     \* config.itemSelectors
    erTopK,          \* topK
    erPage,          \* the cards present on the results page
    erPc,            \* "loop", "return", "done"
    erIdx,           \* position of the loop in itemSelectors
    erQueried,       \* the selectors handed to queryAll so far, in order
    erResults,       \* the local array results
    erFrom,          \* for each entry of results: the selector and card it came from
    erInspected,     \* the elements handed to extractResultItem: the position
                     \* of the selector and the position in its match set
    erReturned       \* what extractResults returned: None before it returns

erVars == <<erSelectors, erTopK, erPage, erPc, erIdx, erQueried, erResults,
            erFrom, erInspected, erReturned>>

\* The largest top-K tried.
MaxTopK == 3

ItemSelectorLists == {
    <<>>,
    <<<<".","s","e","a","r","c","h","-","r","e","s","u","l","t">>, <<".","p","r","o","d","u","c","t","-","c","a","r","d">>>>,
    <<<<"a","r","t","i","c","l","e">>, <<".","p","r","o","d","u","c","t","-","c","a","r","d">>>>,
    <<<<"a","[","h","r","e","f","*","=","\"","/","\"","]">>, <<".","p","r","o","d","u","c","t","-","c","a","r","d">>, <<"a","r","t","i","c","l","e">>>>
    }

\* Variant: the pass goes over the whole match set.
WholeMatchSet(items, topK) == Len(items)

\* Math.min(items.length, topK): the elements of a match set the inner loop
\* goes over.
PassLength(items, topK) == Min(Len(items), topK)

\* The pass over one match set from position k: extractResultItem on each of
\* the first Math.min(items.length, topK) elements with rank k; the items
\* it returned, in order.
RECURSIVE ExtractFrom(_, _, _)
ExtractFrom(items, k, topK) ==
    IF k > PassLength(items, topK) THEN <<>>
    ELSE extractResultItem(Cards[items[k]], k) \o ExtractFrom(items, k + 1, topK)

\* Variant: the loop never breaks on the number of results.
NeverEnough(count, topK) == FALSE

\* if (results.length >= topK) break
EnoughResults(count, topK) == count >= topK

\* Where the loop goes after the pass at position idx.
AfterPass(idx, selectors, stop) ==
    IF stop \/ idx >= Len(selectors) THEN "return" ELSE "loop"

ERInit ==
    /\ erSelectors \in ItemSelectorLists
    /\ erTopK \in 0..MaxTopK
    /\ erPage \in SUBSET CardIds
    /\ erPc = AfterPass(0, erSelectors, FALSE)
    /\ erIdx = 1
    /\ erQueried = <<>>
    /\ erResults = <<>>
    /\ erFrom = <<>>
    /\ erInspected = {}
    /\ erReturned = None

\* One iteration of the loop over itemSelectors.
QueryItems ==
    /\ erPc = "loop"
    /\ erQueried' = Append(erQueried, erSelectors[erIdx])
    /\ IF Len(queryAllCards(erPage, erSelectors[erIdx])) = 0
       THEN /\ UNCHANGED <<erResults, erFrom, erInspected>>
            /\ erPc' = AfterPass(erIdx, erSelectors, FALSE)
       ELSE /\ erResults' =
                  erResults \o ExtractFrom(queryAllCards(erPage, erSelectors[erIdx]), 1, erTopK)
            /\ erFrom' =
                  [k \in 1..Len(erResults') |->
                      IF k <= Len(erFrom) THEN erFrom[k]
                      ELSE [selector |-> erIdx,
                            card |-> queryAllCards(erPage, erSelectors[erIdx])[erResults'[k].rank]]]
            /\ erInspected' = erInspected \cup
                  { [selector |-> erIdx, position |-> k] :
                      k \in 1..PassLength(queryAllCards(erPage, erSelectors[erIdx]), erTopK) }
            /\ erPc' = AfterPass(erIdx, erSelectors,
                                 EnoughResults(Len(erResults'), erTopK))
    /\ erIdx' = erIdx + 1
    /\ UNCHANGED <<erSelectors, erTopK, erPage, erReturned>>

\* return results.slice(0, topK)
ReturnResults ==
    /\ erPc = "return"
    /\ erReturned' = Some(sliceFirst(erResults, erTopK))
    /\ erPc' = "done"
    /\ UNCHANGED <<erSelectors, erTopK, erPage, erIdx, erQueried, erResults, erFrom,
                   erInspected>>

ERNext == QueryItems \/ ReturnResults

\* --------------------------------------------------- normalizeUrl on its own

\* The URLs normalizeUrl is tried on: an origin and path, a query, a fragment.
UrlHeads == <<
    <<"h","t","t","p","s",":","/","/","x",".","c","o","m","/","p">>, <<"h","t","t","p",":","/","/","X",".","c","o","m">>, <<"h","t","t","p","s",":","/","/","x",".","c","o","m","/","p","/","a","/">>,
    <<"/","p","/","a">>, <<"p">>, <<>>,
    <<"h","t","t","p",":","/","/">>, <<"h","t","t","p","s",":","/","/","e","x","a"," ","m","p","l","e",".","c","o","m","/","p">> >>

UrlQueries == <<
    <<>>, <<"?">>, <<"?","i","d","=","5">>, <<"?","u","t","m","_","s","o","u","r","c","e","=","a","&","i","d","=","5">>,
    <<"?","i","d","=","5","&","r","e","f","=","x","&","q","=","a","%","2","0","b">>, <<"?","s","o","u","r","c","e","=","1","&","u","t","m","_","m","e","d","i","u","m","=","2","&","u","t","m","_","c","a","m","p","a","i","g","n","=","3">>,
    <<"?","f","l","a","g","&","&","U","T","M","_","S","O","U","R","C","E","=","1","&","r","e","f">>, <<"?","r","e","f","s","=","1","&","a","=","b","=","c","&","i","d","=","5","&","i","d","=","6","+","7">> >>

UrlFragments == << <<>>, <<"#","t","o","p">> >>

VARIABLES
    nuUrl,      \* the argument of normalizeUrl
    nuPc,       \* "call", "returned", "at rest"
    nuResult    \* what normalizeUrl returned

nuVars == <<nuUrl, nuPc, nuResult>>

NUInit ==
    /\ \E h \in 1..Len(UrlHeads), k \in 1..Len(UrlQueries), f \in 1..Len(UrlFragments) :
          nuUrl = UrlHeads[h] \o UrlQueries[k] \o UrlFragments[f]
    /\ nuPc = "call"
    /\ nuResult = None

NormalizeUrl ==
    /\ nuPc = "call"
    /\ nuResult' = Some(normalizeUrl(nuUrl))
    /\ nuPc' = "returned"
    /\ UNCHANGED nuUrl

NUNext == NormalizeUrl

\* ------------------------------------------------------- the modal dismisser

\* The interactive elements a page may show, in document order
\* (DOMElement: tagName, attributes, innerText).
ModalElements == <<
    \* 1: <button id="accept-btn">Accept</button>
    [tagName |-> <<"b","u","t","t","o","n">>, innerText |-> <<"A","c","c","e","p","t">>,
     attributes |-> [id |-> <<"a","c","c","e","p","t","-","b","t","n">>]],
    \* 2: <a role="button" class="btn  close-x"> Close </a>
    [tagName |-> <<"A">>, innerText |-> <<" ","C","l","o","s","e"," ">>,
     attributes |-> [role |-> <<"b","u","t","t","o","n">>, class |-> <<"b","t","n"," "," ","c","l","o","s","e","-","x">>]],
    \* 3: <div role="button" aria-label="Dismiss">It's x</div>
    [tagName |-> <<"D","I","V">>, innerText |-> <<"I","t","'","s"," ","x">>,
     attributes |-> [role |-> <<"b","u","t","t","o","n">>, ariaLabel |-> <<"D","i","s","m","i","s","s">>]],
    \* 4: <button class="btn">Search</button>
    [tagName |-> <<"b","u","t","t","o","n">>, innerText |-> <<"S","e","a","r","c","h">>,
     attributes |-> [class |-> <<"b","t","n">>]],
    \* 5: <button class="btn">OK, Accept</button>
    [tagName |-> <<"b","u","t","t","o","n">>, innerText |-> <<"O","K",","," ","A","c","c","e","p","t">>,
     attributes |-> [class |-> <<"b","t","n">>]],
    \* 6: <button class="btn wide">OK, Accept</button>
    [tagName |-> <<"b","u","t","t","o","n">>, innerText |-> <<"O","K",","," ","A","c","c","e","p","t">>,
     attributes |-> [class |-> <<"b","t","n"," ","w","i","d","e">>]]
    >>

ModalElementIds == 1..Len(ModalElements)

\* const selectors of tryDismissModal, with what the browser's selector
\* engine makes of each. kind "tag": tag; "attrEq": tag[attr="val"] (any tag
\* when tag is empty); "class": .val; "classHas": [class*="val"].
ModalSelectors == <<
    [text |-> <<"b","u","t","t","o","n">>, kind |-> "tag", tag |-> <<"b","u","t","t","o","n">>, attr |-> "none", val |-> <<>>],
    [text |-> <<"a","[","r","o","l","e","=","\"","b","u","t","t","o","n","\"","]">>, kind |-> "attrEq", tag |-> <<"a">>, attr |-> "role", val |-> <<"b","u","t","t","o","n">>],
    [text |-> <<"[","r","o","l","e","=","\"","b","u","t","t","o","n","\"","]">>, kind |-> "attrEq", tag |-> <<>>, attr |-> "role", val |-> <<"b","u","t","t","o","n">>],
    [text |-> <<".","b","u","t","t","o","n">>, kind |-> "class", tag |-> <<>>, attr |-> "class", val |-> <<"b","u","t","t","o","n">>],
    [text |-> <<".","b","t","n">>, kind |-> "class", tag |-> <<>>, attr |-> "class", val |-> <<"b","t","n">>],
    [text |-> <<"[","c","l","a","s","s","*","=","\"","c","l","o","s","e","\"","]">>, kind |-> "classHas", tag |-> <<>>, attr |-> "class", val |-> <<"c","l","o","s","e">>],
    [text |-> <<"[","c","l","a","s","s","*","=","\"","d","i","s","m","i","s","s","\"","]">>, kind |-> "classHas", tag |-> <<>>, attr |-> "class", val |-> <<"d","i","s","m","i","s","s">>],
    [text |-> <<"[","c","l","a","s","s","*","=","\"","a","c","c","e","p","t","\"","]">>, kind |-> "classHas", tag |-> <<>>, attr |-> "class", val |-> <<"a","c","c","e","p","t">>]
    >>

\* Whether the element matches the selector.
ModalMatches(m, el) ==
    CASE m.kind = "tag" -> toLowerCase(el.tagName) = m.tag
      [] m.kind = "attrEq" ->
            /\ m.tag = <<>> \/ toLowerCase(el.tagName) = m.tag
            /\ Attr(el, m.attr) = m.val
      [] m.kind = "class" -> m.val \in SeqToSet(filterBoolean(split(Attr(el, "class"))))
      [] m.kind = "classHas" -> Includes(Attr(el, "class"), m.val)

\* client.queryAll(selector) on a page showing the elements of `page`: the
\* ids of the matching elements in document order.
RECURSIVE queryAllModalFrom(_, _, _)
queryAllModalFrom(m, page, e) ==
    IF e > Len(ModalElements) THEN <<>>
    ELSE IF e \in page /\ ModalMatches(m, ModalElements[e])
         THEN <<e>> \o queryAllModalFrom(m, page, e + 1)
         ELSE queryAllModalFrom(m, page, e + 1)

queryAllModal(s, page) == queryAllModalFrom(ModalSelectors[s], page, 1)

\* config.closeTextMatches
closeTextMatches == <<
    <<"a","c","c","e","p","t">>, <<"a","g","r","e","e">>, <<"c","o","n","t","i","n","u","e">>, <<"g","o","t"," ","i","t">>,
    <<"c","l","o","s","e">>, <<"o","k">>, <<"d","i","s","m","i","s","s">> >>

\* text.includes(pattern.toLowerCase()) || ariaLabel.includes(pattern.toLowerCase())
MatchesPattern(el, pattern) ==
    \/ Includes(trim(toLowerCase(el.innerText)), toLowerCase(pattern))
    \/ Includes(toLowerCase(Attr(el, "ariaLabel")), toLowerCase(pattern))

\* The nested loops over elements and patterns, entered at element index e
\* and pattern index p: the first position at which the text or the
\* aria-label contains the pattern, None when the loops run out.
RECURSIVE NextCandidate(_, _, _)
NextCandidate(elements, e, p) ==
    IF e > Len(elements) THEN None
    ELSE IF p > Len(closeTextMatches) THEN NextCandidate(elements, e + 1, 1)
    ELSE IF MatchesPattern(ModalElements[elements[e]], closeTextMatches[p])
         THEN Some([element |-> e, pattern |-> p])
         ELSE NextCandidate(elements, e, p + 1)

\* target.innerText.replace(/'/g, "\\'")
RECURSIVE EscapeQuotesFrom(_, _)
EscapeQuotesFrom(s, k) ==
    IF k > Len(s) THEN <<>>
    ELSE IF s[k] = "'" THEN <<"\\", "'">> \o EscapeQuotesFrom(s, k + 1)
    ELSE <<s[k]>> \o EscapeQuotesFrom(s, k + 1)

EscapeQuotes(s) == EscapeQuotesFrom(s, 1)

\* The length the text of the fallback selector is cut to.
HasTextLimit == 30

\* The filter of findUniqueSelector: same tag, every class of the target,
\* identical text.
SameLook(el, target, classes) ==
    /\ el.tagName = target.tagName
    /\ SeqToSet(classes) \subseteq SeqToSet(filterBoolean(split(Attr(el, "class"))))
    /\ el.innerText = target.innerText

RECURSIVE CountSameLook(_, _, _, _)
CountSameLook(allElements, target, classes, k) ==
    IF k > Len(allElements) THEN 0
    ELSE CountSameLook(allElements, target, classes, k + 1)
         + (IF SameLook(allElements[k], target, classes) THEN 1 ELSE 0)

HasTextSelector(target) ==
    toLowerCase(target.tagName) \o <<":","h","a","s","-","t","e","x","t","(","\"">>
        \o substring0(EscapeQuotes(target.innerText), HasTextLimit) \o <<"\"",")">>

ClassSelector(target) ==
    target.tagName \o <<".">> \o join(filterBoolean(split(Attr(target, "class"))), <<".">>)

findUniqueSelector(target, allElements) ==
    IF Attr(target, "id") # <<>> THEN <<"#">> \o Attr(target, "id")
    ELSE IF /\ filterBoolean(split(Attr(target, "class"))) # <<>>
            /\ CountSameLook(allElements, target,
                             filterBoolean(split(Attr(target, "class"))), 1) = 1
         THEN ClassSelector(target)
         ELSE HasTextSelector(target)

VARIABLES
    dmMaxAutoClicks, \* config.maxAutoClicks
    dmPage,          \* the interactive elements the page shows now
    dmPc,            \* where dismissModals stands
    dmPass,          \* i of the loop of dismissModals
    dmSel,           \* index into selectors of the selector to query next
    dmElements,      \* elements of the last queryAll
    dmAt,            \* the element and pattern about to be clicked on
    dmDismissed,     \* what tryDismissModal returned
    clickCount,      \* clickCount
    dmReturned,      \* the value dismissModals returned
    dmMatched,       \* whether this pass has met a matching element
    dmSelector,      \* the selector last passed to client.click
    dmClicked,       \* the number of clicks that went through
    dmIssued,        \* the number of queryAll and click calls issued
    dmNoMatchAt      \* dmIssued at the end of the first pass without a match

dmVars == <<dmMaxAutoClicks, dmPage, dmPc, dmPass, dmSel, dmElements, dmAt,
            dmDismissed, clickCount, dmReturned, dmMatched, dmSelector,
            dmClicked, dmIssued, dmNoMatchAt>>

MaxAutoClicks == 2

\* What a call on the browser can end in.
CallOutcomes == {"ok", "throws"}

DMInit ==
    /\ dmMaxAutoClicks \in 0..MaxAutoClicks
    /\ dmPage \in SUBSET ModalElementIds
    /\ dmPc = "loop"
    /\ dmPass = 0
    /\ dmSel = 1
    /\ dmElements = <<>>
    /\ dmAt = None
    /\ dmDismissed = FALSE
    /\ clickCount = 0
    /\ dmReturned = None
    /\ dmMatched = FALSE
    /\ dmSelector = None
    /\ dmClicked = 0
    /\ dmIssued = 0
    /\ dmNoMatchAt = None

OneMoreClick(k, maxAutoClicks) == k <= maxAutoClicks

\* i < config.maxAutoClicks
WithinBudget(k, maxAutoClicks) == k < maxAutoClicks

\* The head of the loop of dismissModals: another call of tryDismissModal,
\* or return clickCount.
EnterPass ==
    /\ dmPc = "loop"
    /\ IF WithinBudget(dmPass, dmMaxAutoClicks)
       THEN /\ dmPc' = "query"
            /\ dmSel' = 1
            /\ dmMatched' = FALSE
            /\ UNCHANGED dmReturned
       ELSE /\ dmPc' = "done"
            /\ dmReturned' = Some(clickCount)
            /\ UNCHANGED <<dmSel, dmMatched>>
    /\ UNCHANGED <<dmMaxAutoClicks, dmPage, dmPass, dmElements, dmAt,
                   dmDismissed, clickCount, dmSelector, dmClicked, dmIssued,
                   dmNoMatchAt>>

\* Where tryDismissModal goes on from position (e, p) of the loops over
\* `elements`: to the click at the next matching position, or to the next
\* selector.
Proceed(elements, e, p) ==
    /\ dmAt' = NextCandidate(elements, e, p)
    /\ IF dmAt' = None
       THEN /\ dmPc' = "query"
            /\ dmSel' = dmSel + 1
            /\ UNCHANGED dmMatched
       ELSE /\ dmPc' = "click"
            /\ dmMatched' = TRUE
            /\ UNCHANGED dmSel

\* One iteration of the selector loop of tryDismissModal up to its first
\* click: queryAll, then the scan of the elements for a pattern.
QueryAll ==
    /\ dmPc = "query"
    /\ dmSel <= Len(ModalSelectors)
    /\ dmIssued' = dmIssued + 1
    /\ \E outcome \in CallOutcomes :
          IF outcome = "throws"
          THEN /\ dmPc' = "raised"
               /\ UNCHANGED <<dmElements, dmAt, dmSel, dmMatched>>
          ELSE /\ dmElements' = queryAllModal(dmSel, dmPage)
               /\ Proceed(dmElements', 1, 1)
    /\ UNCHANGED <<dmMaxAutoClicks, dmPage, dmPass, dmDismissed, clickCount,
                   dmReturned, dmSelector, dmClicked, dmNoMatchAt>>

\* The selectors are used up: tryDismissModal returns false.
EndPass ==
    /\ dmPc = "query"
    /\ dmSel > Len(ModalSelectors)
    /\ dmPc' = "after"
    /\ dmDismissed' = FALSE
    /\ dmNoMatchAt' = IF ~dmMatched /\ dmNoMatchAt = None
                      THEN Some(dmIssued) ELSE dmNoMatchAt
    /\ UNCHANGED <<dmMaxAutoClicks, dmPage, dmPass, dmSel, dmElements, dmAt,
                   clickCount, dmReturned, dmMatched, dmSelector, dmClicked,
                   dmIssued>>

\* What the page shows after a click on the element went through: the
\* element is gone, or it is still there.
PagesAfterClick(page, e) == {page, page \ {e}}

\* The try block: findUniqueSelector and client.click. A click that goes
\* through ends tryDismissModal with true; one that throws goes on with
\* the next pattern.
Click ==
    /\ dmPc = "click"
    /\ LET e == dmAt[1].element
           target == ModalElements[dmElements[e]]
           uniqueSelector == findUniqueSelector(target,
                                 [k \in 1..Len(dmElements) |-> ModalElements[dmElements[k]]])
       IN IF uniqueSelector = <<>>
          THEN /\ Proceed(dmElements, e, dmAt[1].pattern + 1)
               /\ UNCHANGED <<dmPage, dmDismissed, dmSelector, dmClicked,
                              dmIssued>>
          ELSE /\ dmIssued' = dmIssued + 1
               /\ dmSelector' = Some(uniqueSelector)
               /\ \E outcome \in CallOutcomes :
                     IF outcome = "throws"
                     THEN /\ Proceed(dmElements, e, dmAt[1].pattern + 1)
                          /\ UNCHANGED <<dmPage, dmDismissed, dmClicked>>
                     ELSE /\ dmPc' = "after"
                          /\ dmDismissed' = TRUE
                          /\ dmClicked' = dmClicked + 1
                          /\ dmPage' \in PagesAfterClick(dmPage, dmElements[e])
                          /\ UNCHANGED <<dmAt, dmSel, dmMatched>>
    /\ UNCHANGED <<dmMaxAutoClicks, dmPass, dmElements, clickCount,
                   dmReturned, dmNoMatchAt>>

NeverStops(dismissed) == FALSE

\* if (!dismissed) break
StopsAfter(dismissed) == ~dismissed

\* The rest of the loop body of dismissModals after tryDismissModal.
AfterTry ==
    /\ dmPc = "after"
    /\ IF StopsAfter(dmDismissed)
       THEN /\ dmPc' = "done"
            /\ dmReturned' = Some(clickCount)
            /\ UNCHANGED <<clickCount, dmPass>>
       ELSE /\ clickCount' = clickCount + 1
            /\ dmPass' = dmPass + 1
            /\ dmPc' = "loop"
            /\ UNCHANGED dmReturned
    /\ UNCHANGED <<dmMaxAutoClicks, dmPage, dmSel, dmElements, dmAt,
                   dmDismissed, dmMatched, dmSelector, dmClicked, dmIssued,
                   dmNoMatchAt>>

DMNext == EnterPass \/ QueryAll \/ EndPass \/ Click \/ AfterTry

\* ------------------------------------- the element heuristics on their own

\* The descriptors the search-box heuristics are tried on.
TryTags == {<<"I","N","P","U","T">>, <<"i","n","p","u","t">>, <<"T","E","X","T","A","R","E","A">>}

TryIds == {<<>>, <<"q">>}

TryNames == {<<>>, <<"q","u","e","r","y">>}

TryClasses == {<<>>, <<"f","i","e","l","d">>, <<"a"," "," ","b"," ","c">>, <<"u","n","h","i","d","d","e","n">>, <<"i","s","-","i","n","v","i","s","i","b","l","e"," ","b","i","g">>, <<" ">>}

TryStyles == {
    <<>>, <<"c","o","l","o","r",":"," ","r","e","d">>, <<"d","i","s","p","l","a","y",":"," ","n","o","n","e">>, <<"w","i","d","t","h",":","1","p","x",";","d","i","s","p","l","a","y",":","n","o","n","e">>,
    <<"D","I","S","P","L","A","Y",":"," ","N","O","N","E">>, <<"d","i","s","p","l","a","y",":"," "," ","n","o","n","e">>, <<"d","i","s","p","l","a","y"," ",":"," ","n","o","n","e">>,
    <<"v","i","s","i","b","i","l","i","t","y",":"," ","h","i","d","d","e","n">>, <<"v","i","s","i","b","i","l","i","t","y",":","h","i","d","d","e","n",";">>, <<"V","i","s","i","b","i","l","i","t","y",":","H","i","d","d","e","n">>,
    <<"d","i","s","p","l","a","y",":"," ","b","l","o","c","k",";"," ","v","i","s","i","b","i","l","i","t","y",":"," ","v","i","s","i","b","l","e">> }

\* The targets findUniqueSelector is tried on, and what else the pool holds.
TryTexts == {
    <<"O","K">>, <<"I","t","'","s"," ","f","i","n","e">>, <<"S","a","y"," ","\"","O","K","\"">>,
    <<"A","c","c","e","p","t"," ","a","l","l"," ","c","o","o","k","i","e","s"," ","a","n","d"," ","c","o","n","t","i","n","u","e"," ","t","o"," ","t","h","e"," ","s","i","t","e">>,
    <<"A","c","c","e","p","t"," ","c","o","o","k","i","e","s"," ","a","n","d"," ","c","o","n","t","i","n","u","e",","," ","'","n","o","w","'"," ","p","l","e","a","s","e">> }

TryModalClasses == {<<>>, <<"b","t","n">>, <<"b","t","n"," "," ","w","i","d","e">>}

Descriptor(tag, id, name, class, style, text) ==
    [tagName |-> tag, innerText |-> text,
     attributes |-> [id |-> id, name |-> name, class |-> class, style |-> style]]

\* The pools around a target: the target alone, with a twin, with a twin that
\* has one class more, with elements that differ in text or in tag.
PoolsAround(target) == {
    <<target>>,
    <<target, target>>,
    <<[target EXCEPT !.attributes.class = @ \o <<" ","e","x","t","r","a">>], target>>,
    <<target, [target EXCEPT !.innerText = <<"O","t","h","e","r">>]>>,
    <<[target EXCEPT !.tagName = <<"a">>], target>> }

VARIABLES
    elElement,   \* the descriptor handed to the function
    elPool,      \* allElements of findUniqueSelector
    elPc,        \* "search box", "modal", "returned", "at rest"
    elResult     \* the function called and what it returned

elVars == <<elElement, elPool, elPc, elResult>>

ELInit ==
    /\ elResult = None
    /\ \/ /\ elPc = "search box"
          /\ elPool = <<>>
          /\ \E tag \in TryTags, id \in TryIds, name \in TryNames,
                class \in TryClasses, style \in TryStyles :
                elElement = Descriptor(tag, id, name, class, style, <<>>)
       \/ /\ elPc = "modal"
          /\ \E tag \in {<<"b","u","t","t","o","n">>, <<"D","I","V">>}, id \in TryIds,
                class \in TryModalClasses, text \in TryTexts :
                /\ elElement = Descriptor(tag, id, <<>>, class, <<>>, text)
                /\ elPool \in PoolsAround(elElement)

IsLikelyVisibleCall ==
    /\ elPc = "search box"
    /\ elResult' = Some([fn |-> "isLikelyVisible", visible |-> isLikelyVisible(elElement)])
    /\ elPc' = "returned"
    /\ UNCHANGED <<elElement, elPool>>

BuildSelectorCall ==
    /\ elPc = "search box"
    /\ elResult' = Some([fn |-> "buildSelector", selector |-> buildSelector(elElement)])
    /\ elPc' = "returned"
    /\ UNCHANGED <<elElement, elPool>>

FindUniqueSelectorCall ==
    /\ elPc = "modal"
    /\ elResult' = Some([fn |-> "findUniqueSelector",
                         selector |-> findUniqueSelector(elElement, elPool)])
    /\ elPc' = "returned"
    /\ UNCHANGED <<elElement, elPool>>

ELNext == IsLikelyVisibleCall \/ BuildSelectorCall \/ FindUniqueSelectorCall

\* --------------------------------------------------------- the rate limiter

MsPerSecond == 1000

\* The requests-per-second values of a run, as fractions num/den.
RpsValues == {
    [num |-> 1, den |-> 2],
    [num |-> 1, den |-> 1],
    [num |-> 2, den |-> 1],
    [num |-> 3, den |-> 1] }

\* this.minIntervalMs = 1000 / rps, as the fraction n/d of a millisecond.
minIntervalMs(rps) == [n |-> MsPerSecond * rps.den, d |-> rps.num]

NoTimeSince(now, last) == 0

\* const timeSinceLastCall = now - this.lastCallTime
timeSinceLastCall(now, last) == now - last

WaitsNever(interval, since) == [n |-> 0, d |-> interval.d]

\* Math.max(0, this.minIntervalMs - timeSinceLastCall), as a fraction with
\* the denominator of the interval.
waitTime(interval, since) ==
    [n |-> IF interval.n - since * interval.d > 0
           THEN interval.n - since * interval.d ELSE 0,
     d |-> interval.d]

\* The whole milliseconds setTimeout(resolve, ms) waits at least: the delay
\* is cut to an integer, and a delay below 1 is taken as 1.
TimerMs(ms) == IF ms.n \div ms.d < 1 THEN 1 ELSE ms.n \div ms.d

VARIABLES
    rlRps,          \* rps of the constructor
    rlNow,          \* Date.now()
    lastCallTime,   \* this.lastCallTime
    rlPc,           \* "idle", "sleeping" (in the await of wait), "at rest"
    rlDue,          \* the time the pending timer is due
    rlLog           \* per wait(): when called, the delay asked for, when returned

rlVars == <<rlRps, rlNow, lastCallTime, rlPc, rlDue, rlLog>>

MaxWaits == 3

\* Date.now() when the limiter is constructed: a time of day at least a day
\* after the epoch.
ClockAtStart == {86400000}

\* The milliseconds the caller lets pass between the return of one wait()
\* and the next call (the time processQuery takes).
ProcessingMs == {0, 1, 100, 333, 334, 499, 500, 999, 1000, 1500, 2000}

\* The milliseconds a timer fires after it is due.
Lateness == {0, 1}

RLInit ==
    /\ rlRps \in RpsValues
    /\ rlNow \in ClockAtStart
    /\ lastCallTime = 0
    /\ rlPc = "idle"
    /\ rlDue = 0
    /\ rlLog = <<>>

\* wait() from its call up to the await, or to its return when there is
\* nothing to wait for. `elapsed` is the time since the previous return.
CallWait ==
    /\ rlPc = "idle"
    /\ Len(rlLog) < MaxWaits
    /\ \E elapsed \in (IF rlLog = <<>> THEN {0} ELSE ProcessingMs) :
          LET now == rlNow + elapsed
              asked == waitTime(minIntervalMs(rlRps),
                                timeSinceLastCall(now, lastCallTime))
          IN /\ rlNow' = now
             /\ IF asked.n > 0
                THEN /\ rlPc' = "sleeping"
                     /\ rlDue' = now + TimerMs(asked)
                     /\ rlLog' = Append(rlLog, [called |-> now, asked |-> asked,
                                                returned |-> 0])
                     /\ UNCHANGED lastCallTime
                ELSE /\ lastCallTime' = now
                     /\ rlLog' = Append(rlLog, [called |-> now, asked |-> asked,
                                                returned |-> now])
                     /\ UNCHANGED <<rlPc, rlDue>>
    /\ UNCHANGED rlRps

\* The timer fires and wait() returns: this.lastCallTime = Date.now().
TimerFires ==
    /\ rlPc = "sleeping"
    /\ \E late \in Lateness :
          /\ rlNow' = rlDue + late
          /\ lastCallTime' = rlNow'
          /\ rlLog' = [rlLog EXCEPT ![Len(rlLog)].returned = rlNow']
    /\ rlPc' = "idle"
    /\ UNCHANGED <<rlRps, rlDue>>

RLNext == CallWait \/ TimerFires

\* ------------------------------------------- wait() calls that overlap

\* The milliseconds between one call of wait() and the next, when the
\* caller does not await the first.
GapsBetweenCalls == {0, 1, 100, 500}

\* The calls of the log that are in their await.
Sleeping == {k \in 1..Len(rlLog) : rlLog[k].returned = 0}

\* wait() called whether or not earlier calls have returned: it reads
\* lastCallTime as it is now. No timer that is due has been left unfired.
CallWaitOverlapping ==
    /\ Len(rlLog) < MaxWaits
    /\ \E gap \in (IF rlLog = <<>> THEN {0} ELSE GapsBetweenCalls) :
          LET now == rlNow + gap
              asked == waitTime(minIntervalMs(rlRps),
                                timeSinceLastCall(now, lastCallTime))
          IN /\ \A k \in Sleeping : now <= rlLog[k].due
             /\ rlNow' = now
             /\ IF asked.n > 0
                THEN /\ rlLog' = Append(rlLog,
                            [called |-> now, asked |-> asked, returned |-> 0,
                             due |-> now + TimerMs(asked), during |-> Sleeping])
                     /\ UNCHANGED lastCallTime
                ELSE /\ lastCallTime' = now
                     /\ rlLog' = Append(rlLog,
                            [called |-> now, asked |-> asked, returned |-> now,
                             due |-> now, during |-> Sleeping])
    /\ UNCHANGED <<rlRps, rlPc, rlDue>>

\* The timer of one sleeping call fires, the earliest due first and in the
\* order the timers were set, and that call returns:
\* this.lastCallTime = Date.now().
TimerFiresFor(k) ==
    /\ k \in Sleeping
    /\ \A other \in Sleeping :
          \/ rlLog[k].due < rlLog[other].due
          \/ rlLog[k].due = rlLog[other].due /\ k <= other
    /\ \E late \in Lateness :
          /\ rlNow' = IF rlLog[k].due + late > rlNow THEN rlLog[k].due + late ELSE rlNow
          /\ lastCallTime' = rlNow'
          /\ rlLog' = [rlLog EXCEPT ![k].returned = rlNow']
    /\ UNCHANGED <<rlRps, rlPc, rlDue>>

RONext ==
    \/ CallWaitOverlapping
    \/ \E k \in 1..MaxWaits : TimerFiresFor(k)

\* ------------------------------------------------------------- loadConfig

\* A configuration object is a function from its keys to values; a value is
\* a string, a number, a boolean, a list or another such object.

\* The literal DEFAULT_CONFIG is initialised with.
DefaultConfigLiteral ==
    [site |->
        [url |-> "",
         locale |-> "en-US",
         search |->
            [inputSelectors |-> <<"input[type=\"search\"]",
                                  "input[aria-label*=\"Search\" i]",
                                  "input[name=\"q\"]",
                                  "input[placeholder*=\"Search\" i]">>,
             submitStrategy |-> "enter"],
         results |->
            [itemSelectors |-> <<"a[href*=\"/\"]", "article", ".product-card",
                                 "[data-test*=\"product\"]">>,
             titleSelectors |-> <<"h1", "h2", "h3", ".title", "[title]", "a">>,
             urlAttr |-> "href",
             snippetSelectors |-> <<".description", ".snippet", "p", ".subtitle">>],
         modals |->
            [closeTextMatches |-> <<"accept", "agree", "continue", "got it",
                                    "close", "ok", "dismiss">>,
             maxAutoClicks |-> 3]],
     run |->
        [topK |-> 10,
         viewport |-> [width |-> 1366, height |-> 900],
         waitFor |-> [networkIdleMs |-> 1200, postSubmitMs |-> 800],
         headless |-> TRUE,
         throttleRPS |-> [num |-> 1, den |-> 2],
         seed |-> 42],
     llm |->
        [provider |-> "openai",
         model |-> "gpt-4o-mini",
         maxTokens |-> 800,
         temperature |-> [num |-> 1, den |-> 5],
         systemPrompt |-> "You are a careful search quality judge..."],
     report |->
        [format |-> <<"md", "html">>,
         outDir |-> "./runs"]]

\* rawConfig.site || {}
OrEmpty(raw, section) == IF section \in DOMAIN raw THEN raw[section] ELSE << >>

\* { ...defaults, ...given }: the keys of both, the given value where both
\* have the key. The values are taken as they are, objects included.
Spread(defaults, given) ==
    [k \in DOMAIN defaults \cup DOMAIN given |->
        IF k \in DOMAIN given THEN given[k] ELSE defaults[k]]

\* The object loadConfig builds from a parsed file. The objects nested in a
\* section (search, results, modals, viewport, waitFor) are the defaults' own
\* objects unless the file gives them; nothing modelled here writes into
\* them, so they are held by value.
MergedConfig(defaultConfig, rawConfig) ==
    [site |-> Spread(defaultConfig.site, OrEmpty(rawConfig, "site")),
     run |-> Spread(defaultConfig.run, OrEmpty(rawConfig, "run")),
     llm |-> Spread(defaultConfig.llm, OrEmpty(rawConfig, "llm")),
     report |-> Spread(defaultConfig.report, OrEmpty(rawConfig, "report"))]

\* What a config file may say of each section; << >> stands for a file
\* that does not name the section.
SiteParts == <<
    << >>,
    [url |-> "https://test.com"],
    [url |-> "https://test.com", locale |-> "de-DE"],
    [url |-> "https://test.com",
     search |-> [submitStrategy |-> "clickSelector", submitSelector |-> "button.go"]],
    [modals |-> [maxAutoClicks |-> 1]]
    >>

RunParts == <<
    << >>,
    [topK |-> 15],
    [topK |-> 20, seed |-> 123],
    [viewport |-> [width |-> 800]],
    [headless |-> FALSE, waitFor |-> [postSubmitMs |-> 500]]
    >>

LlmParts == << << >>, [provider |-> "openai", model |-> "gpt-4"] >>

ReportParts == << << >>, [format |-> <<"md">>] >>

\* The parsed file with the sections as given, a section left out when the
\* file does not name it.
RawConfig(site, run, llm, report) ==
    LET given == [site |-> site, run |-> run, llm |-> llm, report |-> report]
    IN  [s \in {t \in DOMAIN given : DOMAIN given[t] # {}} |-> given[s]]

\* The options of the run command: --site is required, the other three
\* have defaults and so are always set.
CliOptions ==
    { [site |-> "https://shop.test", topk |-> k, seed |-> s, out |-> o] :
        k \in {10, 5}, s \in {42}, o \in {"./runs", "./out"} }

VARIABLES
    DEFAULT_CONFIG,   \* what the module's DEFAULT_CONFIG object holds now
    cfFile,           \* what yaml.load gives for the file at configPath
    cfLoads           \* the calls of loadConfig so far, in order: whether a
                      \* path was given, whether the result IS the object
                      \* DEFAULT_CONFIG, the result's own sections when it
                      \* is not, what the result held when it was returned,
                      \* and whether the run command has overridden it

cfVars == <<DEFAULT_CONFIG, cfFile, cfLoads>>

\* The bound on the calls of loadConfig in one process.
MaxLoads == 2

CFInit ==
    /\ DEFAULT_CONFIG = DefaultConfigLiteral
    /\ cfLoads = <<>>
    /\ \E s \in 1..Len(SiteParts), r \in 1..Len(RunParts),
          l \in 1..Len(LlmParts), p \in 1..Len(ReportParts) :
          cfFile = RawConfig(SiteParts[s], RunParts[r], LlmParts[l], ReportParts[p])

\* What the config returned by call k holds now.
ConfigOf(k) == IF cfLoads[k].isDefault THEN DEFAULT_CONFIG ELSE cfLoads[k].own

\* loadConfig() and loadConfig(configPath)
LoadConfig(withPath) ==
    /\ Len(cfLoads) < MaxLoads
    /\ cfLoads' = Append(cfLoads,
          IF ~withPath
          THEN [withPath |-> FALSE, isDefault |-> TRUE, own |-> << >>,
                returned |-> DEFAULT_CONFIG, overridden |-> FALSE]
          ELSE [withPath |-> TRUE, isDefault |-> FALSE,
                own |-> MergedConfig(DEFAULT_CONFIG, cfFile),
                returned |-> MergedConfig(DEFAULT_CONFIG, cfFile),
                overridden |-> FALSE])
    /\ UNCHANGED <<DEFAULT_CONFIG, cfFile>>

\* The four assignments of the run command on a config.
Overridden(config, options) ==
    [config EXCEPT !.site.url = options.site,
                   !.run.topK = options.topk,
                   !.run.seed = options.seed,
                   !.report.outDir = options.out]

\* The run command overrides the config it has just loaded: the
\* assignments go to the object the config is.
ApplyOverrides(options) ==
    /\ cfLoads # <<>>
    /\ ~cfLoads[Len(cfLoads)].overridden
    /\ IF cfLoads[Len(cfLoads)].isDefault
       THEN /\ DEFAULT_CONFIG' = Overridden(DEFAULT_CONFIG, options)
            /\ cfLoads' = [cfLoads EXCEPT ![Len(cfLoads)].overridden = TRUE]
       ELSE /\ cfLoads' = [cfLoads EXCEPT
                  ![Len(cfLoads)].overridden = TRUE,
                  ![Len(cfLoads)].own = Overridden(cfLoads[Len(cfLoads)].own, options)]
            /\ UNCHANGED DEFAULT_CONFIG
    /\ UNCHANGED cfFile

CFNext ==
    \/ \E withPath \in BOOLEAN : LoadConfig(withPath)
    \/ \E options \in CliOptions : ApplyOverrides(options)

\* ------------------------------------------------------ generateHTMLReport

RECURSIVE escapeHtmlFrom(_, _)
escapeHtmlFrom(text, k) ==
    IF k > Len(text) THEN <<>>
    ELSE (CASE text[k] = "&" -> <<"&","a","m","p",";">>
            [] text[k] = "<" -> <<"&","l","t",";">>
            [] text[k] = ">" -> <<"&","g","t",";">>
            [] text[k] = "\"" -> <<"&","q","u","o","t",";">>
            [] text[k] = "'" -> <<"&","#","0","3","9",";">>
            [] OTHER -> <<text[k]>>) \o escapeHtmlFrom(text, k + 1)

\* escapeHtml: each of & < > " ' replaced by its entity.
escapeHtml(text) == escapeHtmlFrom(text, 1)

\* truncate(text, maxLen)
truncate(text, maxLen) ==
    IF Len(text) <= maxLen THEN text
    ELSE SubSeq(text, 1, maxLen - 3) \o <<".",".",".">>

\* The length snippets are cut to in the table of results.
SnippetLimit == 80

\* value || dash for an optional string: the dash (written "-" here) for an
\* absent or empty one.
OrDash(value) == IF value = None \/ value[1] = <<>> THEN <<"-">> ELSE value[1]

\* A template literal is its fixed text and the values of its ${...}
\* expressions, in order. A piece of fixed text is marked "template"; a value
\* carries the name of the data field its expression reads.
Fixed(text) == [field |-> "template", text |-> text]
Value(field, text) == [field |-> field, text |-> text]

RECURSIVE ListItems(_, _, _)
\* list.map((i) => `<li>${escapeHtml(i)}</li>`).join("")
ListItems(field, list, k) ==
    IF k > Len(list) THEN <<>>
    ELSE << Fixed(<<"<","l","i",">">>), Value(field, escapeHtml(list[k])), Fixed(<<"<","/","l","i",">">>) >>
         \o ListItems(field, list, k + 1)

\* The issues and the improvements: a list when there is one, "" otherwise.
ListBlock(field, class, title, list) ==
    IF Len(list) > 0
    THEN << Fixed(<<"<","d","i","v"," ","c","l","a","s","s","=","\"">> \o class \o <<"\"",">","<","s","t","r","o","n","g",">">> \o title \o <<":","<","/","s","t","r","o","n","g",">","<","u","l",">">>) >>
         \o ListItems(field, list, 1) \o << Fixed(<<"<","/","u","l",">","<","/","d","i","v",">">>) >>
    ELSE <<>>

\* One row of the table of results.
ItemRow(item) ==
    << Fixed(<<"<","t","r",">","<","t","d",">">>), Value("item.rank", item.rank),
       Fixed(<<"<","/","t","d",">","<","t","d",">">>), Value("item.title", escapeHtml(OrDash(item.title))),
       Fixed(<<"<","/","t","d",">","<","t","d",">">>) >>
    \o (IF item.url # None /\ item.url[1] # <<>>
        THEN << Fixed(<<"<","a"," ","h","r","e","f","=","\"">>), Value("item.url", escapeHtml(item.url[1])),
                Fixed(<<"\""," ","t","a","r","g","e","t","=","\"","_","b","l","a","n","k","\"",">","l","i","n","k","<","/","a",">">>) >>
        ELSE << Fixed(<<"-">>) >>)
    \o << Fixed(<<"<","/","t","d",">","<","t","d",">">>),
          Value("item.snippet", escapeHtml(truncate(OrDash(item.snippet), SnippetLimit))),
          Fixed(<<"<","/","t","d",">","<","t","d",">">>), Value("item.price", escapeHtml(OrDash(item.price))),
          Fixed(<<"<","/","t","d",">","<","/","t","r",">">>) >>

RECURSIVE ItemRows(_, _)
\* record.items.slice(0, 10).map(...).join("")
ItemRows(items, k) ==
    IF k > Len(items) \/ k > 10 THEN <<>>
    ELSE ItemRow(items[k]) \o ItemRows(items, k + 1)

\* generateQuerySection(record); the five scores are numbers put through
\* toFixed and are left out.
generateQuerySection(record) ==
    << Fixed(<<"<","d","i","v"," ","c","l","a","s","s","=","\"","q","u","e","r","y","-","r","e","s","u","l","t","\"",">","<","d","i","v"," ","c","l","a","s","s","=","\"","q","u","e","r","y","-","h","e","a","d","e","r","\"",">","<","h","3",">","Q","u","e","r","y",":"," ","\"">>),
       Value("query.text", escapeHtml(record.query.text)),
       Fixed(<<"\"","<","/","h","3",">","<","d","i","v"," ","c","l","a","s","s","=","\"","m","e","t","a","\"",">","<","s","t","r","o","n","g",">","I","D",":","<","/","s","t","r","o","n","g",">"," ">>),
       Value("query.id", record.query.id),
       Fixed(<<" ","|"," ","<","s","t","r","o","n","g",">","O","r","i","g","i","n",":","<","/","s","t","r","o","n","g",">"," ">>),
       Value("query.origin", record.query.origin),
       Fixed(<<"<","/","d","i","v",">","<","/","d","i","v",">","<","p",">","<","s","t","r","o","n","g",">","R","a","t","i","o","n","a","l","e",":","<","/","s","t","r","o","n","g",">"," ">>),
       Value("judge.rationale", escapeHtml(record.judge.rationale)),
       Fixed(<<"<","/","p",">">>) >>
    \o ListBlock("judge.issues", <<"i","s","s","u","e","s">>, <<"I","s","s","u","e","s">>, record.judge.issues)
    \o ListBlock("judge.improvements", <<"i","m","p","r","o","v","e","m","e","n","t","s">>, <<"I","m","p","r","o","v","e","m","e","n","t","s">>,
                 record.judge.improvements)
    \o << Fixed(<<"<","h","4",">","T","o","p"," ","R","e","s","u","l","t","s","<","/","h","4",">","<","t","a","b","l","e",">","<","t","b","o","d","y",">">>) >>
    \o ItemRows(record.items, 1)
    \o << Fixed(<<"<","/","t","b","o","d","y",">","<","/","t","a","b","l","e",">","<","d","i","v"," ","c","l","a","s","s","=","\"","a","r","t","i","f","a","c","t","s","\"",">","S","c","r","e","e","n","s","h","o","t",":"," ","<","c","o","d","e",">">>),
          Value("page.screenshotPath", escapeHtml(record.page.screenshotPath)),
          Fixed(<<"<","/","c","o","d","e",">","<","b","r",">","H","T","M","L",":"," ","<","c","o","d","e",">">>),
          Value("page.htmlPath", escapeHtml(record.page.htmlPath)),
          Fixed(<<"<","/","c","o","d","e",">","<","b","r",">","F","i","n","a","l"," ","U","R","L",":"," ","<","a"," ","h","r","e","f","=","\"">>),
          Value("page.finalUrl", escapeHtml(record.page.finalUrl)),
          Fixed(<<"\""," ","t","a","r","g","e","t","=","\"","_","b","l","a","n","k","\"",">">>),
          Value("page.finalUrl", escapeHtml(record.page.finalUrl)),
          Fixed(<<"<","/","a",">","<","/","d","i","v",">","<","/","d","i","v",">">>) >>

RECURSIVE QuerySections(_, _)
\* data.records.map((record) => generateQuerySection(record)).join("\n")
QuerySections(records, k) ==
    IF k > Len(records) THEN <<>>
    ELSE generateQuerySection(records[k]) \o QuerySections(records, k + 1)

\* generateHTMLReport(data) as the pieces of its template literal; the style
\* sheet and the cards of the summary, which hold numbers only, are left out.
generateHTMLReport(data) ==
    << Fixed(<<"<","!","D","O","C","T","Y","P","E"," ","h","t","m","l",">","<","h","t","m","l"," ","l","a","n","g","=","\"","e","n","\"",">","<","h","e","a","d",">","<","t","i","t","l","e",">","S","e","a","r","c","h"," ","Q","u","a","l","i","t","y"," ","A","u","d","i","t"," ","-"," ">>),
       Value("site", data.site),
       Fixed(<<"<","/","t","i","t","l","e",">","<","/","h","e","a","d",">","<","b","o","d","y",">","<","d","i","v"," ","c","l","a","s","s","=","\"","h","e","a","d","e","r","\"",">","<","d","i","v"," ","c","l","a","s","s","=","\"","m","e","t","a","\"",">","<","s","t","r","o","n","g",">","S","i","t","e",":","<","/","s","t","r","o","n","g",">"," ">>),
       Value("site", escapeHtml(data.site)),
       Fixed(<<"<","b","r",">","<","s","t","r","o","n","g",">","R","u","n"," ","I","D",":","<","/","s","t","r","o","n","g",">"," ">>),
       Value("runId", escapeHtml(data.runId)),
       Fixed(<<"<","b","r",">","<","s","t","r","o","n","g",">","T","i","m","e","s","t","a","m","p",":","<","/","s","t","r","o","n","g",">"," ">>),
       Value("timestamp", escapeHtml(data.timestamp)),
       Fixed(<<"<","b","r",">","<","s","t","r","o","n","g",">","M","o","d","e","l",":","<","/","s","t","r","o","n","g",">"," ">>),
       Value("config.model", escapeHtml(data.config.model)),
       Fixed(<<"<","/","d","i","v",">","<","/","d","i","v",">">>) >>
    \o QuerySections(data.records, 1)
    \o << Fixed(<<"<","/","b","o","d","y",">","<","/","h","t","m","l",">">>) >>

\* The strings a field of the report data may hold: plain text, markup,
\* quotes, an ampersand, and a snippet longer than the cut.
DataStrings == <<
    <<"s","h","o","e","s">>,
    <<"<","s","c","r","i","p","t",">","a","l","e","r","t","(","'","x","s","s","'",")","<","/","s","c","r","i","p","t",">">>,
    <<"T","e","s","t"," ","<","i","m","g"," ","s","r","c","=","\"","x","\""," ","o","n","e","r","r","o","r","=","\"","a","l","e","r","t","(","1",")","\"",">">>,
    <<"T","o","m"," ","&"," ","J","e","r","r","y">>,
    <<"A"," ","l","o","n","g"," ","s","n","i","p","p","e","t"," ","a","b","o","u","t"," ","r","u","n","n","i","n","g"," ","s","h","o","e","s"," ","t","h","a","t"," ","g","o","e","s"," ","o","n"," ","a","n","d"," ","o","n",","," ","<","b",">","w","e","l","l","<","/","b",">"," ","p","a","s","t"," ","e","i","g","h","t","y"," ","c","h","a","r","a","c","t","e","r","s">>
    >>

\* The fields of the report data that hold a string.
DataFields ==
    { "site", "runId", "timestamp", "config.model", "query.text", "query.id",
      "query.origin", "judge.rationale", "judge.issues", "judge.improvements",
      "item.title", "item.url", "item.snippet", "item.price",
      "page.screenshotPath", "page.htmlPath", "page.finalUrl" }

\* Report data of one record whose fields hold what `at` gives them; a field
\* `at` does not name holds plain text. The item has no rank string of its
\* own: rank is a number.
ReportData(at, withItem) ==
    LET f(name) == IF name \in DOMAIN at THEN at[name] ELSE <<"p","l","a","i","n">>
    IN  [site |-> f("site"), runId |-> f("runId"), timestamp |-> f("timestamp"),
         config |-> [model |-> f("config.model")],
         records |-> <<
            [query |-> [text |-> f("query.text"), id |-> f("query.id"),
                        origin |-> f("query.origin")],
             judge |-> [rationale |-> f("judge.rationale"),
                        issues |-> IF "judge.issues" \in DOMAIN at
                                   THEN <<f("judge.issues")>> ELSE <<>>,
                        improvements |-> IF "judge.improvements" \in DOMAIN at
                                         THEN <<<<"p","l","a","i","n">>, f("judge.improvements")>>
                                         ELSE <<>>],
             items |-> IF withItem
                       THEN << [rank |-> <<"1">>,
                                title |-> IF "item.title" \in DOMAIN at
                                          THEN Some(f("item.title")) ELSE None,
                                url |-> IF "item.url" \in DOMAIN at
                                        THEN Some(f("item.url")) ELSE None,
                                snippet |-> Some(f("item.snippet")),
                                price |-> IF "item.price" \in DOMAIN at
                                          THEN Some(f("item.price")) ELSE None] >>
                       ELSE <<>>,
             page |-> [screenshotPath |-> f("page.screenshotPath"),
                       htmlPath |-> f("page.htmlPath"),
                       finalUrl |-> f("page.finalUrl")]] >>]

VARIABLES
    htData,     \* the ReportData handed to generateHTMLReport
    htPc,       \* "input", "generated", "at rest"
    htPieces    \* the pieces of the report, None before the call

htVars == <<htData, htPc, htPieces>>

\* One field, or every field, holds one of the strings.
HTInit ==
    /\ htPc = "input"
    /\ htPieces = None
    /\ \E k \in 1..Len(DataStrings), withItem \in BOOLEAN :
          \/ \E field \in DataFields :
                htData = ReportData([n \in {field} |-> DataStrings[k]], withItem)
          \/ htData = ReportData([n \in DataFields |-> DataStrings[k]], withItem)

\* generateHTMLReport(data)
GenerateHTMLReportCall ==
    /\ htPc = "input"
    /\ htPieces' = Some(generateHTMLReport(htData))
    /\ htPc' = "generated"
    /\ UNCHANGED htData

HTNext == GenerateHTMLReportCall

\* -------------------------------------------------------------- withTimeout

\* A promise: pending, or settled with an outcome.
Pending == [state |-> "pending", value |-> ""]
Fulfilled(value) == [state |-> "fulfilled", value |-> value]
Rejected(message) == [state |-> "rejected", value |-> message]

\* The outcomes the promise handed to withTimeout may settle with.
PromiseOutcomes == {Fulfilled("success"), Rejected("boom")}

\* The values of timeoutMs.
TimeoutValues == {1, 2}

\* The values of errorMessage, the default among them.
ErrorMessages == {"Operation timed out", "Custom timeout message"}

\* Settling over again, for comparison: the last outcome stays.
SettlesAgain(promise, outcome) == outcome

\* The resolving functions of a promise: the first call settles it, every
\* later call is ignored.
Settle(promise, outcome) == IF promise.state = "pending" THEN outcome ELSE promise

VARIABLES
    wtNow,        \* the clock, in ms since the call of withTimeout
    wtTimeoutMs,  \* timeoutMs
    wtMessage,    \* errorMessage
    wtPromise,    \* the promise handed in
    wtTimeout,    \* timeoutPromise
    wtJobs,       \* the promise jobs queued, oldest first: the reactions of
                  \* Promise.race to its two promises
    wtRace,       \* the promise withTimeout returns
    wtEvents      \* what has happened, in order: "promise" when the promise
                  \* settled and "timeout" when the timer fired, with the time

wtVars == <<wtNow, wtTimeoutMs, wtMessage, wtPromise, wtTimeout, wtJobs, wtRace, wtEvents>>

\* The clock stops here.
MaxClock == 3

\* withTimeout has just been called and has returned the race: the timer is
\* set, and a promise that was settled already has its reaction queued.
WTInit ==
    /\ wtNow = 0
    /\ wtTimeoutMs \in TimeoutValues
    /\ wtMessage \in ErrorMessages
    /\ wtTimeout = Pending
    /\ wtRace = Pending
    /\ \/ /\ wtPromise = Pending
          /\ wtJobs = <<>>
          /\ wtEvents = <<>>
       \/ /\ wtPromise \in PromiseOutcomes
          /\ wtJobs = <<"promise">>
          /\ wtEvents = <<[what |-> "promise", at |-> 0]>>

\* A millisecond passes; the jobs queued run before anything else does.
Tick ==
    /\ wtJobs = <<>>
    /\ wtNow < MaxClock
    /\ wtNow' = wtNow + 1
    /\ UNCHANGED <<wtTimeoutMs, wtMessage, wtPromise, wtTimeout, wtJobs, wtRace, wtEvents>>

\* The promise settles; the reaction of the race is queued.
PromiseSettles(outcome) ==
    /\ wtPromise = Pending
    /\ wtPromise' = outcome
    /\ wtJobs' = Append(wtJobs, "promise")
    /\ wtEvents' = Append(wtEvents, [what |-> "promise", at |-> wtNow])
    /\ UNCHANGED <<wtNow, wtTimeoutMs, wtMessage, wtTimeout, wtRace>>

\* The timer of setTimeout fires, no sooner than timeoutMs after the call
\* and as a task of its own: reject(new Error(errorMessage)).
TimerFiresWT ==
    /\ wtTimeout = Pending
    /\ wtNow >= wtTimeoutMs
    /\ wtJobs = <<>>
    /\ wtTimeout' = Rejected(wtMessage)
    /\ wtJobs' = Append(wtJobs, "timeout")
    /\ wtEvents' = Append(wtEvents, [what |-> "timeout", at |-> wtNow])
    /\ UNCHANGED <<wtNow, wtTimeoutMs, wtMessage, wtPromise, wtRace>>

\* The oldest job runs: the race is settled with the outcome of the promise
\* the job reacts to.
RunJob ==
    /\ wtJobs # <<>>
    /\ wtRace' = Settle(wtRace, IF Head(wtJobs) = "promise" THEN wtPromise ELSE wtTimeout)
    /\ wtJobs' = Tail(wtJobs)
    /\ UNCHANGED <<wtNow, wtTimeoutMs, wtMessage, wtPromise, wtTimeout, wtEvents>>

WTNext ==
    \/ Tick
    \/ \E outcome \in PromiseOutcomes : PromiseSettles(outcome)
    \/ TimerFiresWT
    \/ RunJob

\* -------------------------------------------------------------- submitSearch

\* What site.search may hold for the submit step: submitStrategy "enter",
\* "clickSelector", left out of the config (None) or a word the type does
\* not know; submitSelector left out, empty or a selector.
SubmitStrategies == {None, Some("enter"), Some("clickSelector"), Some("click")}

SubmitSelectors == {None, Some(<<>>), Some(<<"b","u","t","t","o","n",".","g","o">>)}

\* The strings typed, and the selectors findSearchBox may have returned.
QueryTexts == {<<"s","h","o","e","s">>, <<"r","e","d"," ","h","a","t">>}

SearchBoxSelectors == {<<"#","q">>, <<"i","n","p","u","t","[","n","a","m","e","=","\"","q","\"","]">>}

\* For comparison: Enter whatever the config says.
AlwaysEnter(config) == <<"press", <<"E","n","t","e","r">>>>

\* The call of the client that submits, by the three branches of the code.
SubmitAction(config) ==
    IF config.submitStrategy = Some("enter")
    THEN <<"press", <<"E","n","t","e","r">>>>
    ELSE IF /\ config.submitStrategy = Some("clickSelector")
            /\ config.submitSelector # None
            /\ config.submitSelector[1] # <<>>
    THEN <<"click", config.submitSelector[1]>>
    ELSE <<"press", <<"E","n","t","e","r">>>>

VARIABLES
    ssSelector,   \* searchBoxSelector
    ssQuery,      \* query
    ssConfig,     \* config
    ssPc,         \* "typing", "settling", "submitting", "returned", "raised", "at rest"
    ssActions     \* the calls of the browser client that went through, in order

ssVars == <<ssSelector, ssQuery, ssConfig, ssPc, ssActions>>

SSInit ==
    /\ ssSelector \in SearchBoxSelectors
    /\ ssQuery \in QueryTexts
    /\ \E strategy \in SubmitStrategies, selector \in SubmitSelectors :
          ssConfig = [submitStrategy |-> strategy, submitSelector |-> selector]
    /\ ssPc = "typing"
    /\ ssActions = <<>>

\* await client.type(searchBoxSelector, query): it goes through or throws.
TypeQuery(ok) ==
    /\ ssPc = "typing"
    /\ IF ok
       THEN /\ ssActions' = Append(ssActions, <<"type", ssSelector, ssQuery>>)
            /\ ssPc' = "settling"
       ELSE /\ ssPc' = "raised"
            /\ UNCHANGED ssActions
    /\ UNCHANGED <<ssSelector, ssQuery, ssConfig>>

\* The 300 ms for the autocomplete have passed.
Settled300 ==
    /\ ssPc = "settling"
    /\ ssPc' = "submitting"
    /\ UNCHANGED <<ssSelector, ssQuery, ssConfig, ssActions>>

\* await client.press("Enter") or await client.click(config.submitSelector):
\* it goes through or throws.
Submit(ok) ==
    /\ ssPc = "submitting"
    /\ IF ok
       THEN /\ ssActions' = Append(ssActions, SubmitAction(ssConfig))
            /\ ssPc' = "returned"
       ELSE /\ ssPc' = "raised"
            /\ UNCHANGED ssActions
    /\ UNCHANGED <<ssSelector, ssQuery, ssConfig>>

SSNext ==
    \/ \E ok \in BOOLEAN : TypeQuery(ok)
    \/ Settled300
    \/ \E ok \in BOOLEAN : Submit(ok)

\* ------------------------------------------------------------- judge client

\* JSON values, tagged with their type. Scores are counted in tenths, so
\* that 4.2 is 42 and the bound 5 is 50.
Num(n) == [t |-> "number", v |-> n]
Str(s) == [t |-> "string", v |-> s]
Arr(a) == [t |-> "array", v |-> a]
Obj(o) == [t |-> "object", v |-> o]

GoodScore ==
    [overall |-> Num(42), relevance |-> Num(40), diversity |-> Num(35),
     resultQuality |-> Num(50), navigability |-> Num(0),
     rationale |-> Str("fine"), issues |-> Arr(<<Str("few brands")>>),
     improvements |-> Arr(<<>>),
     evidence |-> Arr(<<Obj([rank |-> Num(1), why |-> Str("on topic")])>>),
     schemaVersion |-> Str("1.0")]

\* The texts a completion may carry, and what JSON.parse makes of each
\* (None: it throws a SyntaxError).
CompletionTexts ==
    {"", "I cannot answer", "{good}", "{good, overall 2.0}", "{overall 5.1}",
     "{no schemaVersion}", "{good, extra field}"}

JSONparse(content) ==
    CASE content = "{good}" -> Some(Obj(GoodScore))
      [] content = "{good, overall 2.0}" ->
            Some(Obj([GoodScore EXCEPT !.overall = Num(20)]))
      [] content = "{overall 5.1}" ->
            Some(Obj([GoodScore EXCEPT !.overall = Num(51)]))
      [] content = "{no schemaVersion}" ->
            Some(Obj([f \in DOMAIN GoodScore \ {"schemaVersion"} |-> GoodScore[f]]))
      [] content = "{good, extra field}" ->
            Some(Obj([f \in DOMAIN GoodScore \cup {"confidence"} |->
                        IF f = "confidence" THEN Str("high") ELSE GoodScore[f]]))
      [] OTHER -> None

ScoreFields == {"overall", "relevance", "diversity", "resultQuality", "navigability"}

JudgeFields ==
    ScoreFields \cup {"rationale", "issues", "improvements", "evidence", "schemaVersion"}

AnyNumber(x) == x.t = "number"

\* z.number().min(0).max(5)
IsScore(x) == x.t = "number" /\ x.v >= 0 /\ x.v <= 50

IsStringArray(x) ==
    x.t = "array" /\ \A i \in 1..Len(x.v) : x.v[i].t = "string"

IsEvidence(x) ==
    /\ x.t = "array"
    /\ \A i \in 1..Len(x.v) :
          /\ x.v[i].t = "object"
          /\ {"rank", "why"} \subseteq DOMAIN x.v[i].v
          /\ x.v[i].v.rank.t = "number"
          /\ x.v[i].v.why.t = "string"

Conforms(x) ==
    /\ x.t = "object"
    /\ JudgeFields \subseteq DOMAIN x.v
    /\ \A f \in ScoreFields : IsScore(x.v[f])
    /\ x.v.rationale.t = "string"
    /\ IsStringArray(x.v.issues)
    /\ IsStringArray(x.v.improvements)
    /\ IsEvidence(x.v.evidence)
    /\ x.v.schemaVersion.t = "string"

\* JudgeScoreSchema.parse: the object cut down to the schema's fields when it
\* conforms, None when parse throws.
JudgeScoreSchema_parse(x) ==
    IF Conforms(x)
    THEN Some([f \in JudgeFields |->
                 IF f = "evidence"
                 THEN Arr([i \in 1..Len(x.v.evidence.v) |->
                             Obj([rank |-> x.v.evidence.v[i].v.rank,
                                  why |-> x.v.evidence.v[i].v.why])])
                 ELSE x.v[f]])
    ELSE None

\* What chat.completions.create may do: raise (connection loss, auth
\* failure), or return a completion with the given content.
CompleterReplies ==
    {[kind |-> "error", content |-> ""]}
        \cup {[kind |-> "completion", content |-> c] : c \in CompletionTexts}

\* Variant: the parsed object is returned without JudgeScoreSchema.parse.
AttemptUnvalidated(reply) ==
    IF reply.kind = "error" \/ reply.content = "" THEN None
    ELSE LET parsed == JSONparse(reply.content)
         IN IF parsed = None \/ parsed[1].t # "object" THEN None
            ELSE Some(parsed[1].v)

\* The try block of one attempt of evaluate: the validated score it returns,
\* None when anything in it throws.
Attempt(reply) ==
    IF reply.kind = "error" THEN None
    ELSE IF reply.content = "" THEN None
    ELSE LET parsed == JSONparse(reply.content)
         IN IF parsed = None THEN None
            ELSE JudgeScoreSchema_parse(parsed[1])

\* Variant: the catch block gives up on the first failure.
IsFirstAttempt(attempt) == attempt = 0

\* attempt === 1 in the catch block
IsLastAttempt(attempt) == attempt = 1

\* attempt < 2, the bound of the for loop
LoopContinues(attempt) == attempt < 2

\* -------------------------------------------------------------- orchestrator

VARIABLES
    numQueries,   \* queries.length
    provider,     \* config.llm.provider
    pc,           \* where runAudit stands
    i,            \* iterations of the query loop started so far
    qpc,          \* per query: the step of processQuery it stands before
    loc,          \* per query: the locals of its processQuery and evaluate
    evaluation,   \* the latest evaluate() call: its query and what the
                  \* completer did on each invocation within it
    qErr,         \* per query: the error its iteration caught (Null: none)
    records,      \* const records: AuditRecord[]
    successful,
    failed,
    thrown,       \* the error runAudit is unwinding with (Null: none)
    disconnects,  \* calls of client.disconnect()
    calls,        \* the collaborator calls made, in order: <<component, query>>
    result        \* what runAudit returned: None or Some(AuditResult)

orchVars == <<numQueries, provider, pc, i, qpc, loc, evaluation, qErr, records,
              successful, failed, thrown, disconnects, calls, result>>

Queries == 1..numQueries

\* config.site.search.inputSelectors of the audited site.
SiteInputSelectors == <<<<"#","m","i","s","s","i","n","g">>, <<".","s","e","a","r","c","h","-","f","i","e","l","d">>>>

\* The pages the browser may show when a query starts.
SitePages == {{}, {1}, {1, 2}, {3}}

\* What extractResults may hand back.
ItemLists == {
    <<>>,
    <<[rank |-> 1, title |-> "Shoe A"]>>,
    <<[rank |-> 1, title |-> "Shoe A"], [rank |-> 2, title |-> "Shoe B"]>>
    }

NoLocals == [selector |-> None, items |-> <<>>, attempt |-> 0]

Settled(q) == qpc[q] \in {"recorded", "failed"}

InProgress(q) == qpc[q] \notin {"pending", "recorded", "failed"}

\* Variant: processQuery is started without being awaited.
NeverAwaited(q) == TRUE

\* `await this.processQuery(...)`: iteration q + 1 begins only once
\* iteration q has run to its end.
IterationOver(q) == IF q = 0 THEN TRUE ELSE Settled(q)

\* Variant: submission before search-box resolution.
StepAfterSubmitFirst(step) ==
    CASE step = "wait" -> "submit"
      [] step = "submit" -> "find"
      [] step = "find" -> "settle"
      [] step = "settle" -> "extract"
      [] step = "extract" -> "capture"
      [] step = "capture" -> "judge"

\* The statements of runAudit's loop body and of processQuery, in order.
StepAfter(step) ==
    CASE step = "wait" -> "find"
      [] step = "find" -> "submit"
      [] step = "submit" -> "settle"
      [] step = "settle" -> "extract"
      [] step = "extract" -> "capture"
      [] step = "capture" -> "judge"

OrchInit ==
    /\ numQueries \in 0..MaxQueries
    /\ provider \in {"openai", "anthropic"}
    /\ pc = "connect"
    /\ i = 0
    /\ qpc = [q \in Queries |-> "pending"]
    /\ loc = [q \in Queries |-> NoLocals]
    /\ evaluation = [query |-> 0, replies |-> <<>>]
    /\ qErr = [q \in Queries |-> Null]
    /\ records = <<>>
    /\ successful = 0
    /\ failed = 0
    /\ thrown = Null
    /\ disconnects = 0
    /\ calls = <<>>
    /\ result = None

\* Variant: a throw in the setup leaves runAudit at once, past the finally.
SetupStepWithoutFinally(here, next) ==
    /\ pc = here
    /\ calls' = Append(calls, <<here, 0>>)
    /\ \/ pc' = next /\ thrown' = thrown
       \/ pc' = "thrown" /\ thrown' = here
    /\ UNCHANGED <<numQueries, provider, i, qpc, loc, evaluation, qErr, records,
                   successful, failed, disconnects, result>>

\* A statement of the setup (connect, setViewport, navigate, dismissModals)
\* either completes or throws; a throw leaves the try block for the finally.
SetupStep(here, next) ==
    /\ pc = here
    /\ calls' = Append(calls, <<here, 0>>)
    /\ \/ pc' = next /\ thrown' = thrown
       \/ pc' = "disconnect" /\ thrown' = here
    /\ UNCHANGED <<numQueries, provider, i, qpc, loc, evaluation, qErr, records,
                   successful, failed, disconnects, result>>

Connect == SetupStep("connect", "setViewport")

SetViewport == SetupStep("setViewport", "navigate")

Navigate == SetupStep("navigate", "dismissModals")

DismissModals == SetupStep("dismissModals", "loop")

\* The top of the for loop: the next iteration begins, or the loop ends.
LoopHead ==
    /\ pc = "loop"
    /\ IterationOver(i)
    /\ IF i < numQueries
       THEN /\ i' = i + 1
            /\ qpc' = [qpc EXCEPT ![i + 1] = "wait"]
            /\ pc' = pc
       ELSE /\ pc' = "disconnect"
            /\ UNCHANGED <<i, qpc>>
    /\ UNCHANGED <<numQueries, provider, loc, evaluation, qErr, records,
                   successful, failed, thrown, disconnects, calls, result>>

\* Variants of the catch block: one that does not count the failure, one
\* that throws the error on.
OnQueryFailureUncounted(q, error) ==
    /\ qpc' = [qpc EXCEPT ![q] = "failed"]
    /\ qErr' = [qErr EXCEPT ![q] = error]
    /\ loc' = [loc EXCEPT ![q] = NoLocals]
    /\ UNCHANGED <<failed, records, successful, pc, thrown>>

OnQueryFailureRethrown(q, error) ==
    /\ qpc' = [qpc EXCEPT ![q] = "failed"]
    /\ qErr' = [qErr EXCEPT ![q] = error]
    /\ failed' = failed + 1
    /\ loc' = [loc EXCEPT ![q] = NoLocals]
    /\ pc' = "disconnect"
    /\ thrown' = error
    /\ UNCHANGED <<records, successful>>

\* The catch block of the loop body: the query counts as failed and the
\* loop goes on.
OnQueryFailure(q, error) ==
    /\ qpc' = [qpc EXCEPT ![q] = "failed"]
    /\ qErr' = [qErr EXCEPT ![q] = error]
    /\ failed' = failed + 1
    /\ loc' = [loc EXCEPT ![q] = NoLocals]
    /\ UNCHANGED <<records, successful, pc, thrown>>

\* Variant: the record is put in front of the earlier ones.
OnQuerySuccessPrepended(q, record) ==
    /\ qpc' = [qpc EXCEPT ![q] = "recorded"]
    /\ records' = <<record>> \o records
    /\ successful' = successful + 1
    /\ loc' = [loc EXCEPT ![q] = NoLocals]
    /\ UNCHANGED <<qErr, failed, pc, thrown>>

\* records.push(record); successful++
OnQuerySuccess(q, record) ==
    /\ qpc' = [qpc EXCEPT ![q] = "recorded"]
    /\ records' = Append(records, record)
    /\ successful' = successful + 1
    /\ loc' = [loc EXCEPT ![q] = NoLocals]
    /\ UNCHANGED <<qErr, failed, pc, thrown>>

\* A step of the query moves on to the statement after it.
Advance(q, locals) ==
    /\ qpc' = [qpc EXCEPT ![q] = StepAfter(qpc[q])]
    /\ loc' = [loc EXCEPT ![q] = locals]
    /\ UNCHANGED <<qErr, failed, records, successful, pc, thrown>>

\* await this.rateLimiter.wait()
RateLimiterWait(q) ==
    /\ qpc[q] = "wait"
    /\ calls' = Append(calls, <<"wait", q>>)
    /\ \/ Advance(q, loc[q])
       \/ OnQueryFailure(q, "RateLimiterError")
    /\ UNCHANGED <<numQueries, provider, i, evaluation, disconnects, result>>

\* findSearchBox on the page the browser shows, and the null check after it.
FindSearchBox(q) ==
    /\ qpc[q] = "find"
    /\ calls' = Append(calls, <<"findSearchBox", q>>)
    /\ \/ \E page \in SitePages :
            LET searchBoxSelector == findSearchBox(page, SiteInputSelectors)
            IN IF searchBoxSelector = None
               THEN OnQueryFailure(q, "SearchBoxNotFound")
               ELSE Advance(q, [loc[q] EXCEPT !.selector = searchBoxSelector])
       \/ OnQueryFailure(q, "BrowserError")
    /\ UNCHANGED <<numQueries, provider, i, evaluation, disconnects, result>>

\* submitSearch: type, settle, press or click.
SubmitSearch(q) ==
    /\ qpc[q] = "submit"
    /\ calls' = Append(calls, <<"submitSearch", q>>)
    /\ \/ Advance(q, loc[q])
       \/ OnQueryFailure(q, "BrowserError")
    /\ UNCHANGED <<numQueries, provider, i, evaluation, disconnects, result>>

\* delay(postSubmitMs); waitForNetworkIdle(networkIdleMs)
WaitForResults(q) ==
    /\ qpc[q] = "settle"
    /\ calls' = Append(calls, <<"waitForNetworkIdle", q>>)
    /\ \/ Advance(q, loc[q])
       \/ OnQueryFailure(q, "BrowserError")
    /\ UNCHANGED <<numQueries, provider, i, evaluation, disconnects, result>>

\* extractResults and the emptiness check after it.
\* Variant: the orchestrator goes on with whatever extractResults returned.
NeverEmptyExtraction(items) == FALSE

\* if (items.length === 0)
IsEmptyExtraction(items) == Len(items) = 0

ExtractResults(q) ==
    /\ qpc[q] = "extract"
    /\ calls' = Append(calls, <<"extractResults", q>>)
    /\ \/ \E items \in ItemLists :
            IF IsEmptyExtraction(items)
            THEN OnQueryFailure(q, "NoResultsFound")
            ELSE Advance(q, [loc[q] EXCEPT !.items = items])
       \/ OnQueryFailure(q, "BrowserError")
    /\ UNCHANGED <<numQueries, provider, i, evaluation, disconnects, result>>

\* captureArtifacts, then the start of evaluateResults: createLLMClient
\* throws for a provider that is not implemented, else evaluate() begins.
CaptureArtifacts(q) ==
    /\ qpc[q] = "capture"
    /\ calls' = Append(calls, <<"captureArtifacts", q>>)
    /\ \/ IF provider = "openai"
          THEN /\ Advance(q, loc[q])
               /\ evaluation' = [query |-> q, replies |-> <<>>]
          ELSE /\ OnQueryFailure(q, "ProviderNotImplemented")
               /\ evaluation' = evaluation
       \/ /\ OnQueryFailure(q, "BrowserError")
          /\ evaluation' = evaluation
    /\ UNCHANGED <<numQueries, provider, i, disconnects, result>>

\* One pass of the loop of evaluate: the chat completion call and what
\* follows it up to the next call, the return or the throw.
JudgeAttempt(q) ==
    /\ qpc[q] = "judge"
    /\ calls' = Append(calls, <<"evaluate", q>>)
    /\ \E reply \in CompleterReplies :
         LET validated == Attempt(reply)
             attempt == loc[q].attempt
         IN /\ evaluation' = [evaluation EXCEPT !.replies = Append(@, reply)]
            /\ IF validated # None
               THEN OnQuerySuccess(q, [query |-> q, items |-> loc[q].items,
                                       page |-> [screenshotPath |-> q, htmlPath |-> q],
                                       judge |-> validated[1]])
               ELSE IF IsLastAttempt(attempt) \/ ~LoopContinues(attempt + 1)
               THEN OnQueryFailure(q, "JudgeEvaluationFailed")
               ELSE /\ loc' = [loc EXCEPT ![q].attempt = attempt + 1]
                    /\ UNCHANGED <<qpc, qErr, failed, records, successful, pc, thrown>>
    /\ UNCHANGED <<numQueries, provider, i, disconnects, result>>

\* The finally block: client.disconnect(), which may itself throw; an error
\* caught on the way is thrown on afterwards.
Disconnect ==
    /\ pc = "disconnect"
    /\ disconnects' = disconnects + 1
    /\ calls' = Append(calls, <<"disconnect", 0>>)
    /\ \/ /\ thrown' = thrown
          /\ pc' = IF thrown = Null THEN "summary" ELSE "thrown"
       \/ /\ thrown' = "disconnect"
          /\ pc' = "thrown"
    /\ UNCHANGED <<numQueries, provider, i, qpc, loc, evaluation, qErr, records,
                   successful, failed, result>>

RECURSIVE SumOverall(_)
SumOverall(rs) ==
    IF Len(rs) = 0 THEN 0 ELSE Head(rs).judge.overall.v + SumOverall(Tail(rs))

\* Variant: the average is taken over all the queries, the failed ones too.
SummarizeOverAllQueries ==
    /\ pc = "summary"
    /\ result' = Some([records |-> records,
                       summary |-> [totalQueries |-> numQueries,
                                    successful |-> successful,
                                    failed |-> failed,
                                    averageScore |->
                                        IF numQueries > 0
                                        THEN <<SumOverall(records), numQueries>>
                                        ELSE <<0, 1>>],
                       jsonl |-> records])
    /\ pc' = "returned"
    /\ UNCHANGED <<numQueries, provider, i, qpc, loc, evaluation, qErr, records,
                   successful, failed, thrown, disconnects, calls>>

\* The summary, the JSONL file and the return. averageScore is kept as the
\* fraction <<numerator, denominator>>, in tenths.
Summarize ==
    /\ pc = "summary"
    /\ result' = Some([records |-> records,
                       summary |-> [totalQueries |-> numQueries,
                                    successful |-> successful,
                                    failed |-> failed,
                                    averageScore |->
                                        IF successful > 0
                                        THEN <<SumOverall(records), successful>>
                                        ELSE <<0, 1>>],
                       jsonl |-> records])
    /\ pc' = "returned"
    /\ UNCHANGED <<numQueries, provider, i, qpc, loc, evaluation, qErr, records,
                   successful, failed, thrown, disconnects, calls>>

OrchNext ==
    \/ Connect
    \/ SetViewport
    \/ Navigate
    \/ DismissModals
    \/ LoopHead
    \/ \E q \in Queries : RateLimiterWait(q)
    \/ \E q \in Queries : FindSearchBox(q)
    \/ \E q \in Queries : SubmitSearch(q)
    \/ \E q \in Queries : WaitForResults(q)
    \/ \E q \in Queries : ExtractResults(q)
    \/ \E q \in Queries : CaptureArtifacts(q)
    \/ \E q \in Queries : JudgeAttempt(q)
    \/ Disconnect
    \/ Summarize


\* ------------------------------------------------ the judge schema on its own

\* JSON null.
JsonNull == [t |-> "null", v |-> 0]

\* The values a field of a parsed response may hold.
FieldValues == <<
    Num(-1), Num(0), Num(25), Num(50), Num(51),
    Str("x"), JsonNull, Obj([rank |-> Num(1), why |-> Str("w")]),
    Arr(<<>>), Arr(<<Str("a"), Str("b")>>), Arr(<<Str("a"), Num(1)>>),
    Arr(<<Obj([rank |-> Num(1), why |-> Str("w")])>>),
    Arr(<<Obj([rank |-> Num(-7), why |-> Str("w"), url |-> Str("/p")])>>),
    Arr(<<Obj([rank |-> Str("1"), why |-> Str("w")])>>),
    Arr(<<Obj([rank |-> Num(1)])>>),
    Arr(<<Obj([rank |-> Num(1), why |-> Str("w")]), Str("second")>>)
    >>

\* The top-level fields a response may carry beyond the ten of the schema.
ExtraFields == {{}, {"confidence"}}

WithExtras(o, extras) ==
    [f \in DOMAIN o \cup extras |-> IF f \in DOMAIN o THEN o[f] ELSE Str("high")]

\* A response with the five scores as given.
Scored(overall, others) ==
    [f \in JudgeFields |->
        IF f = "overall" THEN Num(overall)
        ELSE IF f \in ScoreFields THEN Num(others)
        ELSE GoodScore[f]]

VARIABLES
    jsInput,    \* the value handed to JudgeScoreSchema.parse
    jsPc,       \* "input", "parsed", "at rest"
    jsResult    \* what parse returned, None when it threw

jsVars == <<jsInput, jsPc, jsResult>>

\* The parsed responses: the good one with one field replaced, with one
\* field missing, with the scores at the ends of the range, and values that
\* are no objects; each with and without a field the schema does not know.
JSInit ==
    /\ jsPc = "input"
    /\ jsResult = None
    /\ \E extras \in ExtraFields :
          \/ \E f \in JudgeFields, k \in 1..Len(FieldValues) :
                jsInput = Obj(WithExtras([GoodScore EXCEPT ![f] = FieldValues[k]], extras))
          \/ \E f \in JudgeFields :
                jsInput = Obj(WithExtras([g \in JudgeFields \ {f} |-> GoodScore[g]], extras))
          \/ \E overall \in {0, 50}, others \in {0, 50} :
                jsInput = Obj(WithExtras(Scored(overall, others), extras))
          \/ \E k \in 1..Len(FieldValues) :
                extras = {} /\ jsInput = FieldValues[k]

\* JudgeScoreSchema.parse(parsed)
Parse ==
    /\ jsPc = "input"
    /\ jsResult' = JudgeScoreSchema_parse(jsInput)
    /\ jsPc' = "parsed"
    /\ UNCHANGED jsInput

JSNext == Parse
vars == <<orchVars, sbVars, erVars, dmVars, rlVars, jsVars, nuVars, elVars, cfVars, htVars, wtVars, ssVars>>

\* ---------------------------------------------------------- specifications

\* The resolver at rest, for runs of the audit alone.
SBIdle ==
    /\ sbSelectors = <<>>
    /\ sbUseVision = FALSE
    /\ sbPage = {}
    /\ sbPhase = "idle"
    /\ sbIdx = 1
    /\ sbQueried = <<>>
    /\ sbElement = 0
    /\ sbResult = None
    /\ sbSubmit = [submitStrategy |-> "enter", submitSelector |-> None]
    /\ visionCalls = 0
    /\ visionAnswer = None
    /\ sbQuery = 0
    /\ sbSiteSubmit = [submitStrategy |-> "enter", submitSelector |-> None]

\* The results extractor at rest.
ERIdle ==
    /\ erSelectors = <<>>
    /\ erTopK = 0
    /\ erPage = {}
    /\ erPc = "idle"
    /\ erIdx = 1
    /\ erQueried = <<>>
    /\ erResults = <<>>
    /\ erFrom = <<>>
    /\ erInspected = {}
    /\ erReturned = None

\* The modal dismisser at rest.
DMIdle ==
    /\ dmMaxAutoClicks = 0
    /\ dmPage = {}
    /\ dmPc = "idle"
    /\ dmPass = 0
    /\ dmSel = 1
    /\ dmElements = <<>>
    /\ dmAt = None
    /\ dmDismissed = FALSE
    /\ clickCount = 0
    /\ dmReturned = None
    /\ dmMatched = FALSE
    /\ dmSelector = None
    /\ dmClicked = 0
    /\ dmIssued = 0
    /\ dmNoMatchAt = None

\* The rate limiter at rest.
RLIdle ==
    /\ rlRps = [num |-> 1, den |-> 1]
    /\ rlNow = 0
    /\ lastCallTime = 0
    /\ rlPc = "at rest"
    /\ rlDue = 0
    /\ rlLog = <<>>

\* The schema at rest.
JSIdle ==
    /\ jsInput = JsonNull
    /\ jsPc = "at rest"
    /\ jsResult = None

\* normalizeUrl at rest.
NUIdle ==
    /\ nuUrl = <<>>
    /\ nuPc = "at rest"
    /\ nuResult = None

\* The element heuristics at rest.
ELIdle ==
    /\ elElement = <<>>
    /\ elPool = <<>>
    /\ elPc = "at rest"
    /\ elResult = None

\* The orchestrator at rest, for runs of the resolver alone.
OrchIdle ==
    /\ numQueries = 0
    /\ provider = "openai"
    /\ pc = "idle"
    /\ i = 0
    /\ qpc = << >>
    /\ loc = << >>
    /\ evaluation = [query |-> 0, replies |-> <<>>]
    /\ qErr = << >>
    /\ records = <<>>
    /\ successful = 0
    /\ failed = 0
    /\ thrown = Null
    /\ disconnects = 0
    /\ calls = <<>>
    /\ result = None

\* No config loaded.
CFIdle ==
    /\ DEFAULT_CONFIG = DefaultConfigLiteral
    /\ cfFile = << >>
    /\ cfLoads = <<>>

\* No report generated.
HTIdle ==
    /\ htData = << >>
    /\ htPc = "at rest"
    /\ htPieces = None

\* No withTimeout under way.
WTIdle ==
    /\ wtNow = 0
    /\ wtTimeoutMs = 0
    /\ wtMessage = ""
    /\ wtPromise = Pending
    /\ wtTimeout = Pending
    /\ wtJobs = <<>>
    /\ wtRace = Pending
    /\ wtEvents = <<>>

\* No submitSearch under way.
SSIdle ==
    /\ ssSelector = <<>>
    /\ ssQuery = <<>>
    /\ ssConfig = [submitStrategy |-> None, submitSelector |-> None]
    /\ ssPc = "at rest"
    /\ ssActions = <<>>

\* runAudit over a list of queries.
Init == OrchInit /\ SBIdle /\ ERIdle /\ DMIdle /\ RLIdle /\ JSIdle /\ NUIdle /\ ELIdle /\ CFIdle /\ HTIdle /\ WTIdle /\ SSIdle

Next == OrchNext /\ UNCHANGED <<sbVars, erVars, dmVars, rlVars, jsVars, nuVars, elVars, cfVars, htVars, wtVars, ssVars>>

Spec == Init /\ [][Next]_vars

\* One call of the search-box resolver on a live page.
InitSB == SBInit /\ OrchIdle /\ ERIdle /\ DMIdle /\ RLIdle /\ JSIdle /\ NUIdle /\ ELIdle /\ CFIdle /\ HTIdle /\ WTIdle /\ SSIdle

NextSB == SBNext /\ UNCHANGED <<orchVars, erVars, dmVars, rlVars, jsVars, nuVars, elVars, cfVars, htVars, wtVars, ssVars>>

SpecSB == InitSB /\ [][NextSB]_vars

\* One call of extractResults on a results page.
InitER == ERInit /\ OrchIdle /\ SBIdle /\ DMIdle /\ RLIdle /\ JSIdle /\ NUIdle /\ ELIdle /\ CFIdle /\ HTIdle /\ WTIdle /\ SSIdle

NextER == ERNext /\ UNCHANGED <<orchVars, sbVars, dmVars, rlVars, jsVars, nuVars, elVars, cfVars, htVars, wtVars, ssVars>>

SpecER == InitER /\ [][NextER]_vars

\* One call of dismissModals on a page.
InitDM == DMInit /\ OrchIdle /\ SBIdle /\ ERIdle /\ RLIdle /\ JSIdle /\ NUIdle /\ ELIdle /\ CFIdle /\ HTIdle /\ WTIdle /\ SSIdle

NextDM == DMNext /\ UNCHANGED <<orchVars, sbVars, erVars, rlVars, jsVars, nuVars, elVars, cfVars, htVars, wtVars, ssVars>>

SpecDM == InitDM /\ [][NextDM]_vars

\* A run of wait() calls on one limiter, each after the previous returned.
InitRL == RLInit /\ OrchIdle /\ SBIdle /\ ERIdle /\ DMIdle /\ JSIdle /\ NUIdle /\ ELIdle /\ CFIdle /\ HTIdle /\ WTIdle /\ SSIdle

NextRL == RLNext /\ UNCHANGED <<orchVars, sbVars, erVars, dmVars, jsVars, nuVars, elVars, cfVars, htVars, wtVars, ssVars>>

SpecRL == InitRL /\ [][NextRL]_vars

\* JudgeScoreSchema.parse on one parsed response.
InitJS == JSInit /\ OrchIdle /\ SBIdle /\ ERIdle /\ DMIdle /\ RLIdle /\ NUIdle /\ ELIdle /\ CFIdle /\ HTIdle /\ WTIdle /\ SSIdle

NextJS == JSNext /\ UNCHANGED <<orchVars, sbVars, erVars, dmVars, rlVars, nuVars, elVars, cfVars, htVars, wtVars, ssVars>>

SpecJS == InitJS /\ [][NextJS]_vars

\* normalizeUrl on one URL.
InitNU == NUInit /\ OrchIdle /\ SBIdle /\ ERIdle /\ DMIdle /\ RLIdle /\ JSIdle /\ ELIdle /\ CFIdle /\ HTIdle /\ WTIdle /\ SSIdle

NextNU == NUNext /\ UNCHANGED <<orchVars, sbVars, erVars, dmVars, rlVars, jsVars, elVars, cfVars, htVars, wtVars, ssVars>>

SpecNU == InitNU /\ [][NextNU]_vars

\* isLikelyVisible, buildSelector and findUniqueSelector on one descriptor.
InitEL == ELInit /\ OrchIdle /\ SBIdle /\ ERIdle /\ DMIdle /\ RLIdle /\ JSIdle /\ NUIdle /\ CFIdle /\ HTIdle /\ WTIdle /\ SSIdle

NextEL == ELNext /\ UNCHANGED <<orchVars, sbVars, erVars, dmVars, rlVars, jsVars, nuVars, cfVars, htVars, wtVars, ssVars>>

SpecEL == InitEL /\ [][NextEL]_vars

\* Calls of loadConfig in one process, with the run command's overrides.
InitCF == CFInit /\ OrchIdle /\ SBIdle /\ ERIdle /\ DMIdle /\ RLIdle /\ JSIdle /\ NUIdle /\ ELIdle /\ HTIdle /\ WTIdle /\ SSIdle

NextCF == CFNext /\ UNCHANGED <<orchVars, sbVars, erVars, dmVars, rlVars, jsVars, nuVars, elVars, htVars, wtVars, ssVars>>

SpecCF == InitCF /\ [][NextCF]_vars

\* generateHTMLReport on one report.
InitHT == HTInit /\ OrchIdle /\ SBIdle /\ ERIdle /\ DMIdle /\ RLIdle /\ JSIdle /\ NUIdle /\ ELIdle /\ CFIdle /\ WTIdle /\ SSIdle

NextHT == HTNext /\ UNCHANGED <<orchVars, sbVars, erVars, dmVars, rlVars, jsVars, nuVars, elVars, cfVars, wtVars, ssVars>>

SpecHT == InitHT /\ [][NextHT]_vars

\* One call of withTimeout, from its return on.
InitWT == WTInit /\ OrchIdle /\ SBIdle /\ ERIdle /\ DMIdle /\ RLIdle /\ JSIdle /\ NUIdle /\ ELIdle /\ CFIdle /\ HTIdle /\ SSIdle

NextWT == WTNext /\ UNCHANGED <<orchVars, sbVars, erVars, dmVars, rlVars, jsVars, nuVars, elVars, cfVars, htVars, ssVars>>

SpecWT == InitWT /\ [][NextWT]_vars

\* One call of submitSearch.
InitSS == SSInit /\ OrchIdle /\ SBIdle /\ ERIdle /\ DMIdle /\ RLIdle /\ JSIdle /\ NUIdle /\ ELIdle /\ CFIdle /\ HTIdle /\ WTIdle

NextSS == SSNext /\ UNCHANGED <<orchVars, sbVars, erVars, dmVars, rlVars, jsVars, nuVars, elVars, cfVars, htVars, wtVars>>

SpecSS == InitSS /\ [][NextSS]_vars

\* wait() calls on one limiter, issued whether or not the earlier ones have returned.
InitRO == RLInit /\ OrchIdle /\ SBIdle /\ ERIdle /\ DMIdle /\ JSIdle /\ NUIdle /\ ELIdle /\ CFIdle /\ HTIdle /\ WTIdle /\ SSIdle

NextRO == RONext /\ UNCHANGED <<orchVars, sbVars, erVars, dmVars, jsVars, nuVars, elVars, cfVars, htVars, wtVars, ssVars>>

SpecRO == InitRO /\ [][NextRO]_vars


\* ------------------------------------------------------------------ claims

\* A completion that came back and did not get through JSON.parse and
\* JudgeScoreSchema.parse.
FailsParsing(reply) ==
    /\ reply.kind = "completion"
    /\ reply.content # ""
    /\ (JSONparse(reply.content) = None
            \/ ~Conforms(JSONparse(reply.content)[1]))

\* C1: within one evaluate() call the completer is never invoked a third
\* time; two responses in a row that fail JSON parsing or schema validation
\* end the call with the judge-evaluation error; and a call that ended with
\* that error invoked the completer exactly twice.
C1_JudgeRetryThenFail ==
    LET r == evaluation.replies
        q == evaluation.query
    IN /\ Len(r) <= 2
       /\ (Len(r) = 2 /\ FailsParsing(r[1]) /\ FailsParsing(r[2]))
             => (qpc[q] = "failed" /\ qErr[q] = "JudgeEvaluationFailed")
       /\ (q # 0 /\ qErr[q] = "JudgeEvaluationFailed") => Len(r) = 2

\* An evaluate() call that saw invalid JSON, then a schema violation, and
\* failed.
C1_Witness ==
    LET r == evaluation.replies
        q == evaluation.query
    IN /\ Len(r) = 2
       /\ r[1].content = "I cannot answer"
       /\ r[2].content = "{overall 5.1}"
       /\ qErr[q] = "JudgeEvaluationFailed"

\* C2 (the claim as stated): an error raised by the chat-completion call is
\* not retried: no invocation of the completer follows it within the same
\* evaluate() call.
C2_TransportErrorNotRetried ==
    LET r == evaluation.replies
    IN \A k \in 1..Len(r) : r[k].kind = "error" => k = Len(r)

RecordsOf(q) == {k \in 1..Len(records) : records[k].query = q}

\* C3: every record carries a full judge score that conforms to the schema;
\* a recorded query has exactly one record and no error, a failed query has
\* an error and no record, and no other query has a record.
C3_OneValidatedScoreOrFailed ==
    /\ \A k \in 1..Len(records) :
          /\ DOMAIN records[k].judge = JudgeFields
          /\ Conforms(Obj(records[k].judge))
    /\ \A q \in Queries :
          /\ qpc[q] = "recorded" => (Cardinality(RecordsOf(q)) = 1 /\ qErr[q] = Null)
          /\ qpc[q] = "failed" => (RecordsOf(q) = {} /\ qErr[q] # Null)
          /\ ~Settled(q) => (RecordsOf(q) = {} /\ qErr[q] = Null)
    /\ pc \in {"summary", "returned"} => \A q \in Queries : Settled(q)

\* A finished run with one query recorded and another failed by the judge.
C3_Witness ==
    /\ pc = "returned"
    /\ \E q \in Queries : qpc[q] = "recorded"
    /\ \E q \in Queries : qpc[q] = "failed" /\ qErr[q] = "JudgeEvaluationFailed"

\* The names of the collaborator calls made for query q, in order.
IsCallOf(q, c) == c[2] = q

CallsOf(q) ==
    LET mine(c) == IsCallOf(q, c)
        cs == SelectSeq(calls, mine)
    IN [k \in 1..Len(cs) |-> cs[k][1]]

IsPrefixOf(s, t) == Len(s) <= Len(t) /\ s = SubSeq(t, 1, Len(s))

QueryCallOrder ==
    <<"wait", "findSearchBox", "submitSearch", "waitForNetworkIdle",
      "extractResults", "captureArtifacts", "evaluate", "evaluate">>

C5_OneQueryAtATime ==
    /\ Cardinality({q \in Queries : InProgress(q)}) <= 1
    /\ \A q \in Queries :
          qpc[q] # "pending" => \A p \in 1..(q - 1) : Settled(p)

\* The second query under way after the first was recorded.
C5_Witness ==
    /\ numQueries >= 2
    /\ qpc[1] = "recorded"
    /\ qpc[2] = "extract"

SetupErrors == {"connect", "setViewport", "navigate", "dismissModals", "disconnect"}

\* C6: a failed query never becomes the error of the run, and once a query
\* has failed the run is either still in its loop or has processed every
\* query of the list.
C6_FailureDoesNotAbort ==
    /\ thrown \in SetupErrors \cup {Null}
    /\ \A q \in Queries :
          qpc[q] = "failed" => (pc = "loop" \/ \A p \in Queries : Settled(p))

\* A run that returned after its first query failed (no search box) and a
\* later one was recorded.
C6_Witness ==
    /\ pc = "returned"
    /\ numQueries >= 2
    /\ qErr[1] = "SearchBoxNotFound"
    /\ qpc[2] = "recorded"

\* C7: in what runAudit returns, successful + failed = totalQueries = the
\* number of queries, there are as many records as successful queries, and
\* no record belongs to a failed query.
C7_SummaryAccounting ==
    result # None =>
        LET s == result[1].summary
            rs == result[1].records
        IN /\ s.successful + s.failed = s.totalQueries
           /\ s.totalQueries = numQueries
           /\ Len(rs) = s.successful
           /\ s.failed = Cardinality({q \in Queries : qpc[q] = "failed"})
           /\ \A k \in 1..Len(rs) : qpc[rs[k].query] # "failed"

\* A returned run with a successful and a failed query.
C7_Witness ==
    /\ result # None
    /\ result[1].summary.successful = 1
    /\ result[1].summary.failed = 1

\* The candidates of one resolver call, in the order of the code.
Candidates == sbSelectors \o fallbackSelectors

HasVisibleMatch(selector) ==
    \E id \in sbPage :
        /\ Matches(selector, Elements[id])
        /\ isLikelyVisible(Elements[id])

LastQueried == sbQueried[Len(sbQueried)]

FoundByCss == sbPhase = "found" /\ visionCalls = 0

\* C8: the selectors handed to queryAll are a prefix of the configured list
\* followed by the fallback list; none but the last has a visible match;
\* the resolver stops at a selector with a visible match and at no other.
C8_SelectorOrder ==
    /\ IsPrefixOf(sbQueried, Candidates)
    /\ \A k \in 1..(Len(sbQueried) - 1) : ~HasVisibleMatch(sbQueried[k])
    /\ (sbQueried # <<>> /\ HasVisibleMatch(LastQueried)) => FoundByCss
    /\ FoundByCss => (sbQueried # <<>> /\ HasVisibleMatch(LastQueried))
    /\ sbPhase \in {"configured", "fallback"} => Len(sbQueried) < Len(Candidates)

\* The first configured selector matches nothing, the second a visible
\* element, while a fallback selector has a visible match too.
C8_Witness ==
    /\ FoundByCss
    /\ sbSelectors = <<<<"#","m","i","s","s","i","n","g">>, <<".","s","e","a","r","c","h","-","f","i","e","l","d">>>>
    /\ sbQueried = sbSelectors
    /\ HasVisibleMatch(fallbackSelectors[1])

\* The first element, in document order, of the selector's match set that
\* isLikelyVisible accepts.
FirstVisibleElement(selector) ==
    CHOOSE id \in sbPage :
        /\ Matches(selector, Elements[id])
        /\ isLikelyVisible(Elements[id])
        /\ \A other \in sbPage :
              (Matches(selector, Elements[other]) /\ isLikelyVisible(Elements[other]))
                 => id <= other

VisionAnswered == visionAnswer # None

\* C11: whatever is raised during a detection (building the finder, the
\* screenshot, the HTML capture, the chat call, the parse of the reply), no
\* exception leaves the vision fallback: the resolver reports NotFound with
\* no selector.
C11_VisionNeverRaises ==
    /\ sbPhase # "raised"
    /\ (VisionAnswered /\ visionAnswer[1].failure # "none")
          => (sbPhase = "notfound" /\ sbResult = None)

\* The screenshot failed although the model would have answered with high
\* confidence and a selector that exists on the page.
C11_Witness ==
    /\ VisionAnswered
    /\ visionAnswer[1].failure = "screenshot"
    /\ visionAnswer[1].response.confidence = "high"
    /\ \E k \in 1..Len(visionAnswer[1].response.selectors) :
          validate_selector(sbPage, visionAnswer[1].response.selectors[k])
    /\ sbPhase = "notfound"

LowConfidence(answer) == answer.response.confidence \notin {"high", "medium"}

\* C12: a detection whose confidence is not high or medium ends the
\* resolution with NotFound: no selector is returned and the submit strategy
\* and selector in force are left as they were, whatever selectors the
\* response lists.
C12_LowConfidenceNeverUsed ==
    [][(sbPhase = "vision" /\ visionAnswer' # None /\ LowConfidence(visionAnswer'[1]))
          => (sbPhase' = "notfound" /\ sbResult' = None /\ sbSubmit' = sbSubmit)]_vars

\* A low-confidence answer lists a selector that exists on the page and
\* suggests a submit selector, and nothing raised.
C12_Witness ==
    /\ VisionAnswered
    /\ visionAnswer[1].failure = "none"
    /\ visionAnswer[1].response.confidence = "low"
    /\ Len(visionAnswer[1].response.selectors) > 0
    /\ validate_selector(sbPage, visionAnswer[1].response.selectors[1])
    /\ visionAnswer[1].response.submit.submit_strategy = "clickSelector"
    /\ sbPhase = "notfound"

Returned == erReturned[1]

\* C14 (the claim as stated): the items returned all come from one
\* container selector.
C14_OneContainerSelector ==
    erReturned # None =>
        \A a, b \in 1..Len(Returned) : erFrom[a].selector = erFrom[b].selector

\* C15 (the claim as stated): the ranks of the returned items are 1..N in
\* list order.
C15_DenseRanks ==
    erReturned # None => \A k \in 1..Len(Returned) : Returned[k].rank = k

\* A card from which neither a title nor a URL can be read.
YieldsNeither(card) ==
    /\ IfTruthy(extractTextFromSelectors(Cards[card], TitleSelectors)) = None
    /\ IfTruthy(extractUrl(Cards[card], UrlAttr)) = None

\* C16: every item collected or returned holds a non-empty title or a
\* non-empty url, and none was read from a card that yields neither.
C16_TitleOrUrl ==
    /\ \A k \in 1..Len(erResults) :
          /\ \/ (erResults[k].title # None /\ erResults[k].title[1] # <<>>)
             \/ (erResults[k].url # None /\ erResults[k].url[1] # <<>>)
          /\ ~YieldsNeither(erFrom[k].card)
    /\ erReturned # None => \A k \in 1..Len(Returned) : Returned[k] = erResults[k]

\* A card without title and URL was matched and inspected, and the list
\* returned holds the cards around it only.
C16_Witness ==
    /\ erReturned # None
    /\ {1, 2, 3} \subseteq erPage
    /\ erQueried # <<>>
    /\ erQueried[1] = <<"a","r","t","i","c","l","e">>
    /\ erTopK = 3
    /\ Cardinality({k \in 1..Len(erFrom) : erFrom[k].selector = 1}) = 2

\* C17 (amended): with K >= 1 a container selector is queried only while
\* fewer than K items have been collected, and the list returned never has
\* more than K items, for K >= 0.
C17_StopsAtTopK ==
    [][/\ (erQueried' # erQueried /\ erTopK >= 1) => Len(erResults) < erTopK
       /\ erReturned' # None => Len(erReturned'[1]) <= erTopK]_vars

\* The loop broke with a selector left that matches a card on the page, and
\* more than K items collected were cut to K.
C17_Witness ==
    /\ erReturned # None
    /\ erTopK = 2
    /\ Len(erResults) > erTopK
    /\ Len(Returned) = erTopK
    /\ erIdx <= Len(erSelectors)
    /\ Len(queryAllCards(erPage, erSelectors[erIdx])) > 0

\* C17 (the claim as stated): for every K, no container selector is queried
\* once the number of items collected has reached K.
C17_NoQueryOnceKReached ==
    [][erQueried' # erQueried => Len(erResults) < erTopK]_vars

CapturedOrJudged(q) ==
    \E k \in 1..Len(calls) :
        calls[k][2] = q /\ calls[k][1] \in {"captureArtifacts", "evaluate"}

\* C18: a query goes past extraction only with at least one item, its record
\* holds them; a query
\* whose extraction came back empty fails with the no-results error, with
\* no artifact capture, no judge call and no record.
C18_NoResultsFails ==
    \A q \in Queries :
        /\ qpc[q] \in {"capture", "judge"} => Len(loc[q].items) > 0
        /\ \A k \in RecordsOf(q) : Len(records[k].items) > 0
        /\ qErr[q] = "NoResultsFound"
              => /\ qpc[q] = "failed"
                 /\ ~CapturedOrJudged(q)
                 /\ RecordsOf(q) = {}
                 /\ evaluation.query # q

\* The first query found nothing and failed; the second was recorded.
C18_Witness ==
    /\ numQueries = 2
    /\ qErr[1] = "NoResultsFound"
    /\ CallsOf(1) = <<"wait", "findSearchBox", "submitSearch", "waitForNetworkIdle",
                      "extractResults">>
    /\ qpc[2] = "recorded"

\* ------------------------------------------------- claims: modal dismisser

\* C19: the count dismissModals returns lies between 0 and maxAutoClicks and
\* is the number of clicks that went through, whatever the page does, a page
\* that keeps showing a matching element after every click included.
C19_CountsSuccessfulClicks ==
    dmReturned # None =>
        /\ dmReturned[1] \in 0..dmMaxAutoClicks
        /\ dmReturned[1] = dmClicked

\* The whole budget was spent on a page that still shows the accept button.
C19_Witness ==
    /\ dmReturned = Some(2)
    /\ dmMaxAutoClicks = 2
    /\ 1 \in dmPage
    /\ dmSelector = Some(<<"#","a","c","c","e","p","t","-","b","t","n">>)
    /\ dmClicked = 2

\* C20: once a pass over all eight selectors has met no element whose text or
\* aria-label contains a dismiss phrase, dismissModals stops whatever budget
\* is left: it issues no further queryAll or click and returns clickCount.
C20_StopsAfterPassWithoutMatch ==
    dmNoMatchAt # None =>
        /\ dmPc \in {"after", "done"}
        /\ dmIssued = dmNoMatchAt[1]
        /\ dmPc = "done" => dmReturned = Some(clickCount)

\* One click went through, the second pass met only the search button, and
\* the call ended with budget to spare.
C20_Witness ==
    /\ dmNoMatchAt # None
    /\ dmPc = "done"
    /\ dmReturned = Some(1)
    /\ dmMaxAutoClicks = 2
    /\ dmPage = {4}
    /\ dmIssued = 2 + Len(ModalSelectors)

\* C21: dismissModals never throws, whatever the browser does: no call on
\* the browser that rejects ends the dismisser with an exception.
C21_NeverThrows == dmPc # "raised"

\* ---------------------------------------------------- claims: rate limiter

\* The waits that have returned.
WaitReturned(k) == k \in 1..Len(rlLog) /\ (k < Len(rlLog) \/ rlPc = "idle")

\* C22: for every rps, the return times of two consecutive wait() calls are
\* at least 1000/rps milliseconds apart.
C22_ReturnsSpacedByInterval ==
    \A k \in 2..Len(rlLog) :
        WaitReturned(k) =>
            (rlLog[k].returned - rlLog[k - 1].returned) * minIntervalMs(rlRps).d
                >= minIntervalMs(rlRps).n

\* The time between the previous return and the call of wait number k.
SincePrevious(k) == rlLog[k].called - rlLog[k - 1].returned

\* C23: wait() returns at once when it is the first call on a fresh limiter
\* or when at least 1000/rps milliseconds have passed since the previous
\* wait() returned, and it never asks for a delay longer than what is left
\* of that interval.
C23_NoDelayBeyondInterval ==
    \A k \in 1..Len(rlLog) :
        /\ k = 1 => rlLog[k].asked.n = 0 /\ rlLog[k].returned = rlLog[k].called
        /\ k > 1 /\ SincePrevious(k) * minIntervalMs(rlRps).d >= minIntervalMs(rlRps).n
              => rlLog[k].asked.n = 0 /\ rlLog[k].returned = rlLog[k].called
        /\ k > 1 => rlLog[k].asked.n
                      <= minIntervalMs(rlRps).n - SincePrevious(k) * minIntervalMs(rlRps).d
                    \/ rlLog[k].asked.n = 0

\* Three calls at two requests a second: the first returns at once, the
\* second after the 400 ms left of its interval, the third, called 500 ms
\* after the second returned, at once.
C23_Witness ==
    /\ rlRps = [num |-> 2, den |-> 1]
    /\ Len(rlLog) = 3
    /\ rlPc = "idle"
    /\ rlLog[1].returned = rlLog[1].called
    /\ SincePrevious(2) = 100
    /\ rlLog[2].asked = [n |-> 800, d |-> 2]
    /\ rlLog[2].returned = rlLog[2].called + 400
    /\ SincePrevious(3) = 500
    /\ rlLog[3].returned = rlLog[3].called

\* The whole milliseconds of 1000/rps.
WholeInterval == minIntervalMs(rlRps).n \div minIntervalMs(rlRps).d

\* C24 (as the code has it): the interval is measured from the return of the
\* wait() of query i, which is the start of its processing, to the start of
\* the processing of query i+1: at least the whole milliseconds of
\* 1000/requestsPerSecond lie between the two.
C24_IntervalBetweenStarts ==
    \A k \in 2..Len(rlLog) :
        WaitReturned(k) => rlLog[k].returned - rlLog[k - 1].returned >= WholeInterval

\* Query 1 took 1500 ms at one request a second, and query 2 started the
\* moment query 1 ended.
C24_Witness ==
    /\ rlRps = [num |-> 1, den |-> 1]
    /\ Len(rlLog) >= 2
    /\ SincePrevious(2) = 1500
    /\ rlLog[2].returned = rlLog[2].called
    /\ rlLog[2].returned - rlLog[1].returned = 1500

\* C24 (as stated): at least 1000/requestsPerSecond milliseconds lie between
\* the end of the processing of query i and the start of the processing of
\* query i+1.
C24_IntervalAfterProcessingEnds ==
    \A k \in 2..Len(rlLog) :
        WaitReturned(k) =>
            (rlLog[k].returned - rlLog[k].called) * minIntervalMs(rlRps).d
                >= minIntervalMs(rlRps).n

\* ---------------------------------------------------- claims: judge schema

\* A number within [0, 5], in tenths.
IsNumberFromZeroToFive(x) == x.t = "number" /\ 0 <= x.v /\ x.v <= 50

IsArrayOf(x, Item(_)) == x.t = "array" /\ \A k \in 1..Len(x.v) : Item(x.v[k])

IsString(x) == x.t = "string"

IsRankAndWhy(x) ==
    /\ x.t = "object"
    /\ "rank" \in DOMAIN x.v /\ x.v.rank.t = "number"
    /\ "why" \in DOMAIN x.v /\ x.v.why.t = "string"

\* All ten top-level fields present with the right types.
TenFieldsWellTyped(x) ==
    /\ x.t = "object"
    /\ \A f \in {"overall", "relevance", "diversity", "resultQuality", "navigability"} :
          f \in DOMAIN x.v /\ IsNumberFromZeroToFive(x.v[f])
    /\ "rationale" \in DOMAIN x.v /\ IsString(x.v.rationale)
    /\ "issues" \in DOMAIN x.v /\ IsArrayOf(x.v.issues, IsString)
    /\ "improvements" \in DOMAIN x.v /\ IsArrayOf(x.v.improvements, IsString)
    /\ "evidence" \in DOMAIN x.v /\ IsArrayOf(x.v.evidence, IsRankAndWhy)
    /\ "schemaVersion" \in DOMAIN x.v /\ IsString(x.v.schemaVersion)

\* C25: the schema accepts a parsed response exactly when all ten top-level
\* fields are present with the right types; a field it does not know never
\* causes rejection, and overall is not tied to the other four scores.
C25_AcceptsExactlyWellTyped ==
    jsPc = "parsed" =>
        /\ jsResult # None <=> TenFieldsWellTyped(jsInput)
        /\ jsResult # None =>
              /\ DOMAIN jsResult[1] = JudgeFields
              /\ \A f \in ScoreFields : jsResult[1][f] = jsInput.v[f]

\* Accepted with a field the schema does not know and with overall 5 over
\* four scores of 0.
C25_Witness ==
    /\ jsPc = "parsed"
    /\ jsResult # None
    /\ jsInput.t = "object"
    /\ "confidence" \in DOMAIN jsInput.v
    /\ jsResult[1].overall = Num(50)
    /\ \A f \in ScoreFields \ {"overall"} : jsResult[1][f] = Num(0)

\* ---------------------------------------------------------- claims: records

\* The records are those of the recorded queries, one each, in the order of
\* the queries; the lines of audit.jsonl are the records in that order.
RecordsInQueryOrder ==
    /\ \A q \in Queries :
          Cardinality(RecordsOf(q)) = (IF qpc[q] = "recorded" THEN 1 ELSE 0)
    /\ Len(records) = successful
    /\ \A a, b \in 1..Len(records) : a < b => records[a].query < records[b].query
    /\ result # None => result[1].jsonl = records /\ result[1].records = records

\* A step leaves the records there are as they are, in their places.
RecordsOnlyAppended ==
    /\ Len(records') >= Len(records)
    /\ SubSeq(records', 1, Len(records)) = records

\* C26: the record sequence of a run is append-only, with one record per
\* successfully processed query and none for any other; a record is never
\* changed, removed or moved; the records stand in the order of their queries,
\* which is the line order of audit.jsonl.
C26_RecordsAppendOnly == [](RecordsInQueryOrder) /\ [][RecordsOnlyAppended]_vars

\* Both queries were recorded and the run returned.
C26_Witness ==
    /\ pc = "returned"
    /\ Len(records) = 2
    /\ records[1].query = 1
    /\ records[2].query = 2
    /\ result[1].jsonl = records

\* ----------------------------------------------------- claims: normalizeUrl

\* The path of a URL: what stands between the host (or the start of a
\* relative URL) and the query or fragment, with its leading "/".
PathOf(url) ==
    LET rest == IF SchemeOf(url) = <<>> THEN url
                ELSE SubSeq(url, Len(SchemeOf(url)) + Len(HostOf(url)) + 1, Len(url))
        path == Before(Before(rest, "#"), "?")
    IN IF path = <<>> \/ path[1] # "/" THEN <<"/">> \o path ELSE path

IsTracking(pair) ==
    pair.name \in {<<"u","t","m","_","s","o","u","r","c","e">>, <<"u","t","m","_","m","e","d","i","u","m">>, <<"u","t","m","_","c","a","m","p","a","i","g","n">>, <<"r","e","f">>, <<"s","o","u","r","c","e">>}

IsNotTracking(pair) == ~IsTracking(pair)

\* C27: normalizeUrl removes exactly the query parameters named utm_source,
\* utm_medium, utm_campaign, ref and source, keeps every other parameter, in
\* order, and the path; a string that does not parse as a URL is returned
\* as it is, and the call always returns.
C27_DropsTrackingParamsOnly ==
    nuPc = "returned" =>
        /\ nuResult # None
        /\ ~UrlParses(nuUrl) => nuResult[1] = nuUrl
        /\ UrlParses(nuUrl) =>
              /\ searchParams(QueryOf(nuResult[1]))
                    = SelectSeq(searchParams(QueryOf(nuUrl)), IsNotTracking)
              /\ PathOf(nuResult[1]) = PathOf(nuUrl)

\* The example of the specification.
C27_Witness ==
    /\ nuPc = "returned"
    /\ nuUrl = <<"h","t","t","p","s",":","/","/","x",".","c","o","m","/","p","?","u","t","m","_","s","o","u","r","c","e","=","a","&","i","d","=","5">>
    /\ nuResult = Some(<<"h","t","t","p","s",":","/","/","x",".","c","o","m","/","p","?","i","d","=","5">>)

\* ----------------------------------------------- claims: element heuristics

Called(fn) == elPc = "returned" /\ elResult[1].fn = fn

\* The string without its blanks.
RECURSIVE WithoutBlanks(_)
WithoutBlanks(s) ==
    IF s = <<>> THEN <<>>
    ELSE IF Head(s) = " " THEN WithoutBlanks(Tail(s))
    ELSE <<Head(s)>> \o WithoutBlanks(Tail(s))

\* A display:none or visibility:hidden marker in the style, in any case and
\* spacing, or hidden or invisible in the class.
HasHiddenMarker(el) ==
    \/ Includes(WithoutBlanks(toLowerCase(Attr(el, "style"))), <<"d","i","s","p","l","a","y",":","n","o","n","e">>)
    \/ Includes(WithoutBlanks(toLowerCase(Attr(el, "style"))), <<"v","i","s","i","b","i","l","i","t","y",":","h","i","d","d","e","n">>)
    \/ Includes(Attr(el, "class"), <<"h","i","d","d","e","n">>)
    \/ Includes(Attr(el, "class"), <<"i","n","v","i","s","i","b","l","e">>)

\* C28: isLikelyVisible returns false for every descriptor with a
\* display:none or visibility:hidden marker in its style, in any case or
\* spacing variant, or with hidden or invisible in its class, and true for
\* every other descriptor.
C28_HiddenMarkersInAnyVariant ==
    Called("isLikelyVisible") => (elResult[1].visible <=> ~HasHiddenMarker(elElement))

\* The first two class tokens of the element.
FirstTwoClasses(el) == sliceFirst(filterBoolean(split(Attr(el, "class"))), 2)

\* C29: buildSelector returns #id for an element with an id; else
\* tag[name="value"] with the element's own tag for one with a name; else
\* tag.class1.class2 with the element's own tag and its first two class
\* tokens for one with a class; else the bare lower-case tag.
C29_SelectorFromOwnTag ==
    Called("buildSelector") =>
        elResult[1].selector =
            IF Attr(elElement, "id") # <<>> THEN <<"#">> \o Attr(elElement, "id")
            ELSE IF Attr(elElement, "name") # <<>>
            THEN toLowerCase(elElement.tagName) \o <<"[","n","a","m","e","=","\"">>
                     \o Attr(elElement, "name") \o <<"\"","]">>
            ELSE IF FirstTwoClasses(elElement) # <<>>
            THEN toLowerCase(elElement.tagName) \o <<".">>
                     \o join(FirstTwoClasses(elElement), <<".">>)
            ELSE toLowerCase(elElement.tagName)

\* The string with a backslash before each single and double quote.
RECURSIVE QuotesEscaped(_)
QuotesEscaped(s) ==
    IF s = <<>> THEN <<>>
    ELSE (IF Head(s) \in {"'", "\""} THEN <<"\\", Head(s)>> ELSE <<Head(s)>>)
         \o QuotesEscaped(Tail(s))

ClassesOf(el) == SeqToSet(filterBoolean(split(Attr(el, "class"))))

\* The elements of the pool with the target's tag, all of its classes and
\* its text.
LookAlikes(target, pool) ==
    {k \in 1..Len(pool) :
        /\ pool[k].tagName = target.tagName
        /\ ClassesOf(target) \subseteq ClassesOf(pool[k])
        /\ pool[k].innerText = target.innerText}

\* C30: findUniqueSelector returns #id for a target with an id; else the
\* tag.class selector when exactly one element of the pool has the target's
\* tag, all of its classes and its text; else the tag with the has-text
\* pseudo-selector over the first 30 characters of the inner text, quotes
\* escaped.
C30_UniqueSelectorOrEscapedText ==
    Called("findUniqueSelector") =>
        elResult[1].selector =
            IF Attr(elElement, "id") # <<>> THEN <<"#">> \o Attr(elElement, "id")
            ELSE IF ClassesOf(elElement) # {}
                    /\ Cardinality(LookAlikes(elElement, elPool)) = 1
            THEN elElement.tagName \o <<".">>
                     \o join(filterBoolean(split(Attr(elElement, "class"))), <<".">>)
            ELSE toLowerCase(elElement.tagName) \o <<":","h","a","s","-","t","e","x","t","(","\"">>
                     \o QuotesEscaped(SubSeq(elElement.innerText, 1,
                                             Min(30, Len(elElement.innerText))))
                     \o <<"\"",")">>

\* ------------------------------------------- claims on loading the config

\* The objects of a configuration, by their paths (types of AuditConfig).
ObjectPaths ==
    { <<"site">>, <<"site", "search">>, <<"site", "results">>, <<"site", "modals">>,
      <<"run">>, <<"run", "viewport">>, <<"run", "waitFor">>,
      <<"llm">>, <<"report">> }

RECURSIVE Has(_, _)
\* The tree has a value at the path.
Has(tree, path) ==
    IF path = <<>> THEN TRUE
    ELSE IF Head(path) \notin DOMAIN tree THEN FALSE
    ELSE Has(tree[Head(path)], Tail(path))

RECURSIVE Get(_, _)
\* The value at a path the tree has.
Get(tree, path) == IF path = <<>> THEN tree ELSE Get(tree[Head(path)], Tail(path))

SettingNames ==
    { "url", "locale", "inputSelectors", "submitStrategy", "itemSelectors",
      "titleSelectors", "urlAttr", "snippetSelectors", "closeTextMatches",
      "maxAutoClicks", "topK", "width", "height", "networkIdleMs",
      "postSubmitMs", "headless", "throttleRPS", "seed", "provider", "model",
      "maxTokens", "temperature", "systemPrompt", "format", "outDir" }

\* The settings: the paths of the defaults that hold no object.
Settings ==
    { p \in { Append(o, k) : o \in ObjectPaths, k \in SettingNames } :
        Has(DefaultConfigLiteral, p) }

\* C31: every config loadConfig returns for a file holds, for every setting
\* the file does not specify, the default value, also where the file
\* specifies the setting's section or sub-section in part.
C31_UnspecifiedSettingsAreDefault ==
    \A k \in 1..Len(cfLoads) :
        cfLoads[k].withPath =>
            \A p \in Settings :
                ~Has(cfFile, p) =>
                    /\ Has(cfLoads[k].returned, p)
                    /\ Get(cfLoads[k].returned, p) = Get(DefaultConfigLiteral, p)

\* C39: every config loadConfig returns when called without a path holds
\* the default values, whatever was done to the configs returned before.
C39_DefaultsOnEveryCall ==
    \A k \in 1..Len(cfLoads) :
        ~cfLoads[k].withPath => cfLoads[k].returned = DefaultConfigLiteral

\* ------------------------------------------------ claims on the HTML report

\* The five entities escapeHtml writes.
Entities == { <<"&","a","m","p",";">>, <<"&","l","t",";">>, <<"&","g","t",";">>, <<"&","q","u","o","t",";">>, <<"&","#","0","3","9",";">> }

\* The text can introduce no markup: it holds none of < > " ' and every &
\* in it starts an entity.
IsMarkupFree(text) ==
    \A k \in 1..Len(text) :
        /\ text[k] \notin {"<", ">", "\"", "'"}
        /\ text[k] = "&" =>
              \E e \in Entities :
                  /\ k + Len(e) - 1 <= Len(text)
                  /\ SubSeq(text, k, k + Len(e) - 1) = e

\* C32: in a generated report, every value put in from a string field of
\* the report data (site, run id, query text, id and origin, item title,
\* url, snippet and price, rationale, issues, improvements, artifact paths
\* and final URL) is free of markup.
C32_DataStringsEscaped ==
    htPieces # None =>
        \A k \in 1..Len(htPieces[1]) :
            htPieces[1][k].field \in DataFields => IsMarkupFree(htPieces[1][k].text)

\* ---------------------------------------------------- claims on withTimeout

\* What the race settles with when the event decides it.
OutcomeOfEvent(event) ==
    IF event.what = "promise" THEN wtPromise ELSE Rejected(wtMessage)

\* The promise settled less than ms after the call.
SettledWithin(ms) ==
    \E k \in 1..Len(wtEvents) : wtEvents[k].what = "promise" /\ wtEvents[k].at < ms

RaceDecidedByFirstEvent ==
    /\ wtRace # Pending =>
          /\ wtEvents # <<>>
          /\ wtRace = OutcomeOfEvent(wtEvents[1])
    /\ \A k \in 1..Len(wtEvents) :
          wtEvents[k].what = "timeout" => wtEvents[k].at >= wtTimeoutMs

RaceSettlesOnce == wtRace # Pending => wtRace' = wtRace

\* C33 (as amended): the promise withTimeout returns settles once, with the
\* outcome of whichever happens first, the promise settling or the timer
\* firing, and the timer fires no sooner than timeoutMs after the call: the
\* promise's value or error if the promise settles before the timer fires,
\* an error carrying the message otherwise. What happens later never
\* changes the outcome.
C33_FirstEventDecides == [](RaceDecidedByFirstEvent) /\ [][RaceSettlesOnce]_vars

\* Both events have happened, the timer first, and the race stays rejected
\* with the message though the promise was fulfilled after.
C33_Witness ==
    /\ Len(wtEvents) = 2
    /\ wtJobs = <<>>
    /\ wtEvents[1].what = "timeout"
    /\ wtPromise = Fulfilled("success")
    /\ wtRace = Rejected(wtMessage)

\* C33 (as stated): the promise withTimeout returns settles with the
\* promise's outcome if the promise settled before timeoutMs had elapsed,
\* and is rejected with the message otherwise.
C33_DecidedByTimeoutMs ==
    wtRace # Pending =>
        IF SettledWithin(wtTimeoutMs) THEN wtRace = wtPromise
        ELSE wtRace = Rejected(wtMessage)

\* --------------------------------------------------- claims on submitSearch

\* The submit action of the claim: the click on the submit selector when the
\* strategy is clickSelector and a selector is set, Enter in every other case.
ClaimedSubmit ==
    IF ssConfig.submitStrategy = Some("clickSelector")
       /\ ssConfig.submitSelector \notin {None, Some(<<>>)}
    THEN <<"click", ssConfig.submitSelector[1]>>
    ELSE <<"press", <<"E","n","t","e","r">>>>

\* C34: submitSearch types the query into the resolved element first and
\* submits after, once: at every moment its actions so far are the start of
\* "type the query, then the one submit action the config calls for", and
\* they are all of it when the call has returned.
C34_TypesThenSubmitsOnce ==
    LET whole == << <<"type", ssSelector, ssQuery>>, ClaimedSubmit >>
    IN  /\ Len(ssActions) <= 2
        /\ ssActions = SubSeq(whole, 1, Len(ssActions))
        /\ ssPc = "returned" => ssActions = whole

\* A call with strategy clickSelector and no submit selector has returned
\* after typing and pressing Enter.
C34_Witness ==
    /\ ssPc = "returned"
    /\ ssConfig = [submitStrategy |-> Some("clickSelector"), submitSelector |-> None]
    /\ ssActions = << <<"type", ssSelector, ssQuery>>, <<"press", <<"E","n","t","e","r">>>> >>

\* ------------------------------------------------- claims on the summary

\* The queries of the run that succeeded.
SuccessfulQueries == {q \in 1..numQueries : qpc[q] = "recorded"}

RECURSIVE OverallUpTo(_)
\* The overall scores, in tenths, of the records of the successful queries
\* among the first n, added up.
OverallUpTo(n) ==
    IF n = 0 THEN 0
    ELSE OverallUpTo(n - 1)
         + (IF n \in SuccessfulQueries
            THEN records[CHOOSE k \in RecordsOf(n) : TRUE].judge.overall.v
            ELSE 0)

\* C35: in what runAudit returns, averageScore is the sum of judge.overall
\* over the records of the successful queries divided by the number of
\* successful queries, and 0 when no query succeeded; a failed query adds
\* to neither.
C35_AverageOverSuccessful ==
    result # None =>
        result[1].summary.averageScore =
            IF SuccessfulQueries = {} THEN <<0, 1>>
            ELSE <<OverallUpTo(numQueries), Cardinality(SuccessfulQueries)>>

\* A returned run of two queries, one failed and one scored 2.0: the
\* average is 2.0 over one query.
C35_Witness ==
    /\ result # None
    /\ numQueries = 2
    /\ Cardinality(SuccessfulQueries) = 1
    /\ result[1].summary.failed = 1
    /\ result[1].summary.averageScore = <<20, 1>>

\* --------------------------------------------------- claims on disconnect

\* runAudit is past its finally block: at the summary, returned or thrown.
PastFinally == pc \in {"summary", "returned", "thrown"}

\* C36: on every run of runAudit, returning or throwing in connect,
\* setViewport, navigate or dismissModals, client.disconnect() is called
\* once: never twice, no call of a collaborator comes after it, and it has
\* been called when the run is past the finally block, so before the
\* summary and audit.jsonl exist.
C36_DisconnectOnceAndLast ==
    /\ disconnects <= 1
    /\ \A k \in 1..Len(calls) : calls[k][1] = "disconnect" => k = Len(calls)
    /\ PastFinally =>
          /\ disconnects = 1
          /\ calls[Len(calls)][1] = "disconnect"
    /\ result # None => disconnects = 1
    /\ disconnects = 0 => result = None

\* A run that threw in navigate and has disconnected, once, as its last call.
C36_Witness ==
    /\ pc = "thrown"
    /\ thrown = "navigate"
    /\ disconnects = 1
    /\ calls = << <<"connect", 0>>, <<"setViewport", 0>>, <<"navigate", 0>>,
                  <<"disconnect", 0>> >>

\* --------------------------------------- claims on overlapping wait() calls

\* C37: when wait() calls overlap on one limiter, a call being issued while
\* an earlier one is still in its await, the times the two return are at
\* least 1000/rps milliseconds apart.
C37_OverlappingReturnsSpaced ==
    \A k \in 1..Len(rlLog) :
        \A j \in rlLog[k].during :
            (rlLog[j].returned # 0 /\ rlLog[k].returned # 0) =>
                (rlLog[k].returned - rlLog[j].returned) * minIntervalMs(rlRps).d
                    >= minIntervalMs(rlRps).n

\* --------------------------------------------- claims on ranks and top-K

\* C38: every rank in the list extractResults returns lies in 1..K, and of
\* the match set of any one container selector only elements among the
\* first K are inspected.
C38_RanksAndInspectionWithinK ==
    /\ erReturned # None =>
          \A k \in 1..Len(erReturned[1]) : erReturned[1][k].rank \in 1..erTopK
    /\ \A e \in erInspected : e.position \in 1..erTopK

\* With K = 2, a selector matched more than two cards, the first two were
\* inspected and two items were returned.
C38_Witness ==
    /\ erReturned # None
    /\ erTopK = 2
    /\ Len(erReturned[1]) = 2
    /\ \E s \in 1..Len(erQueried) :
          /\ Len(queryAllCards(erPage, erSelectors[s])) > 2
          /\ {e.position : e \in {f \in erInspected : f.selector = s}} = {1, 2}

====
